---- MODULE Spec2Model ----
(***************************************************************************)
(* Model of the voice assistant: the wake-word listener (run_listener),    *)
(* the router worker (router_process / handle_text), validation of the     *)
(* LLM decision (_validate_llm_result, _clean_data, _find_room, norm) and  *)
(* the two-tier transcription (transcribe_with_fallback).                  *)
(*                                                                         *)
(* Python strings are tuples of one-character strings, so that norm, strip *)
(* and int() are computed character by character.  Scores are in           *)
(* ten-thousandths (0.75 is 7500), language probabilities in hundredths.   *)
(***************************************************************************)
EXTENDS Integers, Sequences, FiniteSets, TLC

VARIABLES
    armed,            \* run_listener: armed
    silence_frames,   \* run_listener: silence_frames
    listener_alive,   \* run_listener has not been left by an exception
    last_frame,       \* the last loop iteration: score, armed before it, what it did
    recent,           \* scores of the frames scored since the last capture (last 5 kept)
    router_queue,     \* main: router_queue (texts put and not yet got)
    router_alive,     \* main: router_proc.is_alive()
    wpc,              \* router_process: "idle" (blocked in get) or "handling"
    cur,              \* router_process: text being handled
    last,             \* outcome of the last handle_text call
    main_queue,       \* main: the queue object router_queue names
    proc_queue,       \* the queue object the router process was started on
    queues_made,      \* queue objects created so far by ctx.Queue()
    orphans,          \* router processes alive that router_proc no longer names
    phase,            \* position of the function-level specifications
    in_reg,           \* input: registry snapshot
    in_result,        \* input: LLM decision
    in_fail,          \* input: index of the backend call that raises (0: none)
    out,              \* output of the function applied
    stt_in,           \* input of transcribe_with_fallback: what each model decodes
    stt_out,          \* output of transcribe_with_fallback and the models it ran
    arg,              \* input of the other function-level specifications
    ret,              \* what the function applied to arg gives
    registry_file,    \* the registry the registry file holds
    _RAG_INDEX,       \* voice_route._RAG_INDEX: the rows of its documents
    _RAG_ROWS,        \* voice_route._RAG_ROWS
    hpc,              \* handle_text: "idle", "loaded" (line 101 done), "routed" (102 done)
    loaded_reg,       \* handle_text: reg
    prompt_table,     \* registry_table of the prompt of this request
    retrieved_from,   \* the rows of the index the retriever of this request read
    validated         \* the decision validated last and what validation gave

vars == << armed, silence_frames, listener_alive, last_frame, recent,
           router_queue, router_alive, wpc, cur, last,
           main_queue, proc_queue, queues_made, orphans,
           phase, in_reg, in_result, in_fail, out, stt_in, stt_out, arg, ret,
           registry_file, _RAG_INDEX, _RAG_ROWS, hpc, loaded_reg, prompt_table,
           retrieved_from, validated >>

listenerVars == << armed, silence_frames, listener_alive, last_frame, recent >>
workerVars == << router_queue, router_alive, wpc, cur, last,
                 main_queue, proc_queue, queues_made, orphans >>
queueVars == << main_queue, proc_queue, queues_made >>
funcVars == << phase, in_reg, in_result, in_fail, out >>
sttVars == << stt_in, stt_out >>
callVars == << arg, ret >>
ragVars == << registry_file, _RAG_INDEX, _RAG_ROWS, hpc, loaded_reg, prompt_table,
              retrieved_from, validated >>

-----------------------------------------------------------------------------
(* Python values *)

\* None, also the value of result.get(key) for a missing key
NONE == << "<None>" >>

Truthy(x) == x # NONE /\ x # << >>

\* _RAG_INDEX and _RAG_ROWS when None; an index that was built is never empty
NoIndex == << >>

Whitespace == {" ", "\t", "\n"}

Digits == {"0", "1", "2", "3", "4", "5", "6", "7", "8", "9"}

UpperLetters == << "A", "B", "C", "D", "E", "F", "G", "H", "I", "J", "K", "L", "M",
                   "N", "O", "P", "Q", "R", "S", "T", "U", "V", "W", "X", "Y", "Z" >>

LowerLetters == << "a", "b", "c", "d", "e", "f", "g", "h", "i", "j", "k", "l", "m",
                   "n", "o", "p", "q", "r", "s", "t", "u", "v", "w", "x", "y", "z" >>

Range(s) == {s[i] : i \in DOMAIN s}

\* str.lower() on one character
LowerChar(c) ==
    IF c \in Range(UpperLetters)
    THEN LowerLetters[CHOOSE i \in DOMAIN UpperLetters : UpperLetters[i] = c]
    ELSE c

\* str.lower()
Lower(s) == [i \in DOMAIN s |-> LowerChar(s[i])]

RECURSIVE LStrip(_)
LStrip(s) == IF s # << >> /\ Head(s) \in Whitespace THEN LStrip(Tail(s)) ELSE s

RECURSIVE RStrip(_)
RStrip(s) ==
    IF s # << >> /\ s[Len(s)] \in Whitespace THEN RStrip(SubSeq(s, 1, Len(s) - 1)) ELSE s

\* str.strip()
Strip(s) == RStrip(LStrip(s))

\* re.sub(r"[cls]+", " ", s): every maximal run of characters of cls becomes one space
RECURSIVE SubRuns(_, _, _)
SubRuns(s, cls, inRun) ==
    IF s = << >> THEN << >>
    ELSE IF Head(s) \in cls
         THEN (IF inRun THEN << >> ELSE << " " >>) \o SubRuns(Tail(s), cls, TRUE)
         ELSE << Head(s) >> \o SubRuns(Tail(s), cls, FALSE)

\* the characters [a-z0-9 ] keeps
KeptChars == Range(LowerLetters) \cup Digits \cup {" "}

\* the characters of s outside [a-z0-9 ]
Punct(s) == Range(s) \ KeptChars

\* norm without its last strip
norm_NoTrim(s) ==
    SubRuns(SubRuns(SubRuns(Strip(Lower(s)), {"_", "-"}, FALSE),
                    Range(s) \ (KeptChars \cup Range(UpperLetters)), FALSE),
            Whitespace, FALSE)

\* norm of voice_route.py
norm(s) ==
    LET s1 == Strip(Lower(s))
        s2 == SubRuns(s1, {"_", "-"}, FALSE)
        s3 == SubRuns(s2, Punct(s2), FALSE)
        s4 == SubRuns(s3, Whitespace, FALSE)
    IN  Strip(s4)

\* norm of ha_registry_update.py, lines 25-31
registry_norm(s) ==
    LET s1 == Strip(Lower(s))
        s2 == SubRuns(s1, {"_", "-"}, FALSE)
        s3 == SubRuns(s2, Punct(s2), FALSE)
        s4 == SubRuns(s3, Whitespace, FALSE)
    IN  Strip(s4)

\* longest string given to norm, the two sample names apart
MaxNormLen == 4

NormAlphabet == {"A", "b", "7", " ", "\t", "_", "-", "!"}

RECURSIVE StringsUpTo(_, _)
StringsUpTo(chars, n) ==
    IF n = 0 THEN {<< >>}
    ELSE LET shorter == StringsUpTo(chars, n - 1)
         IN  shorter \cup {Append(q, c) : q \in shorter, c \in chars}

\* "Living-Room_Lamp!!" and "living room lamp"
SampleName == << "L", "i", "v", "i", "n", "g", "-", "R", "o", "o", "m", "_", "L", "a", "m", "p", "!", "!" >>
SampleKey == << "l", "i", "v", "i", "n", "g", " ", "r", "o", "o", "m", " ", "l", "a", "m", "p" >>

NormInputs == StringsUpTo(NormAlphabet, MaxNormLen) \cup {SampleName, SampleKey}

-----------------------------------------------------------------------------
(* Values of the LLM's "data" object: an int, a float (n in tenths), an      *)
(* infinite float, a string, null or a list.                                 *)

PyInt(n) == [t |-> "int", n |-> n, s |-> << >>]
PyFloat(tenths) == [t |-> "float", n |-> tenths, s |-> << >>]
PyInf == [t |-> "inf", n |-> 0, s |-> << >>]
PyStr(s) == [t |-> "str", n |-> 0, s |-> s]
PyNull == [t |-> "none", n |-> 0, s |-> << >>]
PyList == [t |-> "list", n |-> 0, s |-> << >>]

DigitVal(c) == CHOOSE d \in 0..9 : << "0", "1", "2", "3", "4", "5", "6", "7", "8", "9" >>[d + 1] = c

RECURSIVE DecimalValue(_)
DecimalValue(s) ==
    IF s = << >> THEN 0 ELSE 10 * DecimalValue(SubSeq(s, 1, Len(s) - 1)) + DigitVal(s[Len(s)])

\* int(x) of the digits of a string, after its sign
IntOfDigits(digits, negative) ==
    IF digits = << >> \/ \E i \in DOMAIN digits : digits[i] \notin Digits
    THEN [exc |-> "ValueError", n |-> 0]
    ELSE [exc |-> "", n |-> (IF negative THEN -1 ELSE 1) * DecimalValue(digits)]

\* int(x) of a stripped string: an optional sign, then decimal digits
IntOfBody(body) ==
    IF body # << >> /\ Head(body) \in {"+", "-"}
    THEN IntOfDigits(Tail(body), Head(body) = "-")
    ELSE IntOfDigits(body, FALSE)

\* int(x) of a string: surrounding whitespace is ignored
IntOfStr(s) == IntOfBody(Strip(s))

\* int(x): the exception raised ("" for none) and the integer
int(v) ==
    CASE v.t = "int" -> [exc |-> "", n |-> v.n]
      [] v.t = "float" -> [exc |-> "", n |-> IF v.n >= 0 THEN v.n \div 10 ELSE 0 - ((0 - v.n) \div 10)]
      [] v.t = "inf" -> [exc |-> "OverflowError", n |-> 0]
      [] v.t = "str" -> IntOfStr(v.s)
      [] OTHER -> [exc |-> "TypeError", n |-> 0]

Max2(a, b) == IF a >= b THEN a ELSE b
Min2(a, b) == IF a <= b THEN a ELSE b

BRIGHTNESS_MIN == 1
BRIGHTNESS_MAX == 100
COLOR_TEMP_MIN == 2300
COLOR_TEMP_MAX == 4000

\* the empty dict
EmptyDict == [k \in {} |-> 0]

\* the clamp without its lower bound
Clamp_NoFloor(key, r, lo, hi) ==
    IF r.exc \in {"TypeError", "ValueError"} THEN [exc |-> "RuntimeError", cleaned |-> EmptyDict]
    ELSE IF r.exc # "" THEN [exc |-> r.exc, cleaned |-> EmptyDict]
    ELSE [exc |-> "", cleaned |-> key :> Min2(hi, r.n)]

\* the except clause and the clamp of one accepted key, r being int(data[key]):
\* TypeError and ValueError become RuntimeError, any other exception passes
Clamp(key, r, lo, hi) ==
    IF r.exc \in {"TypeError", "ValueError"} THEN [exc |-> "RuntimeError", cleaned |-> EmptyDict]
    ELSE IF r.exc # "" THEN [exc |-> r.exc, cleaned |-> EmptyDict]
    ELSE [exc |-> "", cleaned |-> key :> Max2(lo, Min2(hi, r.n))]

\* if key in data: cleaned[key] = max(lo, min(hi, int(data[key])))
CleanKey(data, key, lo, hi) ==
    IF key \in DOMAIN data THEN Clamp(key, int(data[key]), lo, hi)
    ELSE [exc |-> "", cleaned |-> EmptyDict]

\* the two blocks of _clean_data in order: b of brightness_pct, c of color_temp_kelvin
CleanBoth(b, c) ==
    IF b.exc # ""
    THEN [exc |-> b.exc, msg |-> "brightness_pct must be an integer", cleaned |-> EmptyDict]
    ELSE IF c.exc # ""
    THEN [exc |-> c.exc, msg |-> "color_temp_kelvin must be an integer", cleaned |-> EmptyDict]
    ELSE [exc |-> "", msg |-> "", cleaned |-> c.cleaned @@ b.cleaned]

\* _clean_data(data): [exc, msg, cleaned]
_clean_data(data) ==
    CleanBoth(CleanKey(data, "brightness_pct", BRIGHTNESS_MIN, BRIGHTNESS_MAX),
              CleanKey(data, "color_temp_kelvin", COLOR_TEMP_MIN, COLOR_TEMP_MAX))

-----------------------------------------------------------------------------
(* The registry snapshot and the validation of an LLM decision *)

\* a missing string-valued key of the decision (service, intent)
NoneStr == "<None>"

ALLOWED_SERVICES == {"turn_on", "turn_off"}

\* an entity record as ha_registry_update.main writes it
MakeEntity(entity_id, friendly_name) ==
    [entity_id |-> entity_id, friendly_name |-> friendly_name,
     friendly_norm |-> registry_norm(friendly_name)]

\* entity_id.split(".", 1)[0]; an entity id is a tuple of tokens, "." among them
RECURSIVE SplitDomain(_)
SplitDomain(entity_id) ==
    IF entity_id = << >> \/ Head(entity_id) = "." THEN << >>
    ELSE << Head(entity_id) >> \o SplitDomain(Tail(entity_id))

\* area.get("name", "")
AreaName(area) == IF area.name = NONE THEN << >> ELSE area.name

\* the areas whose normalized name is room_norm
RoomHits(reg, room_norm) ==
    {i \in DOMAIN reg.areas : norm(AreaName(reg.areas[i])) = room_norm}

\* the first area among hits: << >> for None, else << area >>
FirstArea(reg, hits) ==
    IF hits = {} THEN << >> ELSE << reg.areas[CHOOSE i \in hits : \A j \in hits : i <= j] >>

\* _find_room(reg, room_name): << >> for None, else << area >>, the first match
_find_room(reg, room_name) == FirstArea(reg, RoomHits(reg, norm(room_name)))

\* the entities stored under key
EntityHits(reg, key) == {i \in DOMAIN reg.entities : reg.entities[i].friendly_norm = key}

\* a dict comprehension keeps, of the entities under one key, the last
LastEntity(reg, hits) ==
    IF hits = {} THEN NONE
    ELSE reg.entities[CHOOSE i \in hits : \A j \in hits : i >= j].entity_id

\* {e.get("friendly_norm"): e.get("entity_id") for e in entities}.get(key)
ValidEntitiesGet(reg, key) == LastEntity(reg, EntityHits(reg, key))

Raise(exc, msg) ==
    [exc |-> exc, msg |-> msg, domain |-> << >>, service |-> NoneStr, payload |-> EmptyDict]

Return(domain, service, payload) ==
    [exc |-> "", msg |-> "", domain |-> domain, service |-> service, payload |-> payload]

\* payload.update(c); return domain, service, payload, c being _clean_data(data)
Update(domain, service, payload, c) ==
    IF c.exc # "" THEN Raise(c.exc, c.msg) ELSE Return(domain, service, c.cleaned @@ payload)

Finish(domain, service, payload, data) == Update(domain, service, payload, _clean_data(data))

\* the entity list sent beside the area id
AreaTarget_Both(area) ==
    IF Truthy(area.area_id)
    THEN ("area_id" :> area.area_id) @@ ("entity_id" :> area.light_entities)
    ELSE "entity_id" :> area.light_entities

\* lines 65-73: the target selector of a room
AreaTarget(area) ==
    IF Truthy(area.area_id) THEN "area_id" :> area.area_id
    ELSE "entity_id" :> area.light_entities

\* a room without lights accepted
RoomPayload_AnyLights(result, found) ==
    IF found = << >> THEN Raise("RuntimeError", "Room not found for name")
    ELSE Finish(<< "light" >>, result.service, AreaTarget(found[1]), result.data)

\* lines 63-75, found being _find_room(reg, room_name)
RoomPayload(result, found) ==
    IF found = << >> THEN Raise("RuntimeError", "Room not found for name")
    ELSE IF ~Truthy(found[1].area_id) /\ found[1].light_entities = << >>
    THEN Raise("RuntimeError", "No lights found for room")
    ELSE Finish(<< "light" >>, result.service, AreaTarget(found[1]), result.data)

\* lines 83-89, entity_id being valid_entities.get(friendly_norm)
EntityPayload(result, entity_id) ==
    IF ~Truthy(entity_id) THEN Raise("RuntimeError", "Entity not found for friendly name")
    ELSE Finish(SplitDomain(entity_id), result.service, "entity_id" :> entity_id,
                result.data)

\* lines 77-89: the decision names an entity
ValidateEntity(result, reg) ==
    IF ~Truthy(result.entity_friendly_name)
    THEN Raise("RuntimeError", "LLM did not return an entity_friendly_name")
    ELSE EntityPayload(result, ValidEntitiesGet(reg, norm(result.entity_friendly_name)))

\* a room that is not found falls back to the entity name
ValidateRoom_Fallback(result, reg) ==
    IF _find_room(reg, result.room_name) = << >> /\ Truthy(result.entity_friendly_name)
    THEN ValidateEntity(result, reg)
    ELSE RoomPayload(result, _find_room(reg, result.room_name))

\* lines 61-75: the decision names a room
ValidateRoom(result, reg) == RoomPayload(result, _find_room(reg, result.room_name))

\* the service check made only on the entity path
_validate_llm_result_RoomFirst(result, reg) ==
    IF Truthy(result.room_name) THEN ValidateRoom(result, reg)
    ELSE IF result.service \notin ALLOWED_SERVICES
    THEN Raise("RuntimeError", "Invalid service from LLM")
    ELSE ValidateEntity(result, reg)

\* _validate_llm_result(result, reg): [exc, msg, domain, service, payload]
_validate_llm_result(result, reg) ==
    IF result.service \notin ALLOWED_SERVICES
    THEN Raise("RuntimeError", "Invalid service from LLM")
    ELSE IF Truthy(result.room_name) THEN ValidateRoom(result, reg)
    ELSE ValidateEntity(result, reg)

-----------------------------------------------------------------------------
(* handle_text: the backend calls one utterance leads to *)

LIVING_ROOM_PLAYER == << "media_player", ".", "living_room" >>

\* the fixed messages of handle_text, one token each
MSG_NOT_SURE == << "I am not sure how to help with that." >>
MSG_SORRY == << "Sorry, I could not figure out that request." >>

\* a call_service(settings, domain, service, data) request
Call(domain, service, data) == [domain |-> domain, service |-> service, data |-> data]

\* set_volume(settings, entity_id, level)
SetVolumeCall(entity_id, level) ==
    Call(<< "media_player" >>, "volume_set",
         ("entity_id" :> entity_id) @@ ("volume_level" :> level))

\* speak_on_sonos(settings, entity_id, message), with the default TTS settings
SpeakCall(entity_id, message) ==
    Call(<< "tts" >>, "speak",
         ("media_player_entity_id" :> entity_id) @@ ("message" :> message))

\* _speak_reply(settings, message): the calls it issues
_speak_reply(message) ==
    IF Strip(message) = << >> THEN << >>
    ELSE << SetVolumeCall(LIVING_ROOM_PLAYER, "0.1"),
            SpeakCall(LIVING_ROOM_PLAYER, Strip(message)) >>

\* (result.get("response_text") or "").strip()
ResponseText(result) ==
    IF Truthy(result.response_text) THEN Strip(result.response_text) ELSE << >>

\* a reply only when the decision has no service
IsReply_NoService(result) ==
    /\ result.service \in {NoneStr, ""}
    /\ result.intent = "reply" \/ ResponseText(result) # << >>

\* intent == "reply" or (not result.get("service") and response_text)
IsReply(result) ==
    \/ result.intent = "reply"
    \/ result.service \in {NoneStr, ""} /\ ResponseText(result) # << >>

\* lines 105-117 of handle_text, v being what _validate_llm_result gives where it is
\* called: the branch taken, the calls planned, the exception let through
Branch(result, response_text, v) ==
    IF IsReply(result)
    THEN [branch |-> "reply", exc |-> "",
          calls |-> _speak_reply(IF response_text # << >> THEN response_text
                                 ELSE MSG_NOT_SURE)]
    ELSE IF v.exc = "RuntimeError"
    THEN [branch |-> "validation_error", exc |-> "",
          calls |-> _speak_reply(IF response_text # << >> THEN response_text
                                 ELSE MSG_SORRY)]
    ELSE IF v.exc # ""
    THEN [branch |-> "validation_raised", exc |-> v.exc, calls |-> << >>]
    ELSE [branch |-> "execute", exc |-> "",
          calls |-> << Call(v.domain, v.service, v.payload) >>]

\* what handle_text means to do once the LLM decision is there
Plan(result, reg) == Branch(result, ResponseText(result), _validate_llm_result(result, reg))

\* the calls of a plan up to the one that raises
Issue(plan, fail_at) ==
    IF fail_at \in 1..Len(plan.calls)
    THEN [branch |-> plan.branch, exc |-> "HTTPError",
          calls |-> SubSeq(plan.calls, 1, fail_at)]
    ELSE plan

\* the exception load_registry raises for the state of the registry file
LoadError(load) ==
    CASE load = "missing" -> "FileNotFoundError"
      [] load = "unparsable" -> "JSONDecodeError"
      [] OTHER -> ""

\* the exception llm_route raises for the LLM's answer
LlmError(llm) ==
    CASE llm = "connection_error" -> "UnboundLocalError"
      [] llm = "http_error" -> "HTTPError"
      [] llm = "no_choices" -> "RuntimeError"
      [] llm = "empty_content" -> "RuntimeError"
      [] llm = "bad_json" -> "JSONDecodeError"
      [] OTHER -> ""

\* handle_text(settings, text): load is the state of the registry file, llm the
\* LLM's answer ("decision": result), fail_at the backend call that raises (0: none).
\* exc is the exception that leaves handle_text ("" when it returns).
handle_text(load, reg, llm, result, fail_at) ==
    IF LoadError(load) # ""
    THEN [branch |-> "load_registry", exc |-> LoadError(load), calls |-> << >>]
    ELSE IF LlmError(llm) # ""
    THEN [branch |-> "llm_route", exc |-> LlmError(llm), calls |-> << >>]
    ELSE Issue(Plan(result, reg), fail_at)

-----------------------------------------------------------------------------
(* Inputs: registries and LLM decisions *)

LIGHT_A == << "light", ".", "lamp_a" >>
LIGHT_B == << "light", ".", "lamp_b" >>
SWITCH_FAN == << "switch", ".", "fan" >>

\* "Lamp" and "lamp!" normalize to the same key
EntLampA == MakeEntity(LIGHT_A, << "L", "a", "m", "p" >>)
EntLampB == MakeEntity(LIGHT_B, << "l", "a", "m", "p", "!" >>)
EntFan == MakeEntity(SWITCH_FAN, << "F", "a", "n", "_", "1" >>)

\* a room with lights and no backend area id
AreaDen == [name |-> << "D", "e", "n" >>, area_id |-> NONE,
            light_entities |-> << LIGHT_A, LIGHT_B >>]
\* a room with a backend area id
AreaLoft == [name |-> << "l", "o", "f", "t" >>, area_id |-> << "loft_id" >>,
             light_entities |-> << LIGHT_A >>]
\* a room with neither
AreaAttic == [name |-> << "A", "t", "t", "i", "c" >>, area_id |-> NONE,
              light_entities |-> << >>]

RegHome == [entities |-> << EntLampA, EntLampB, EntFan >>,
            areas |-> << AreaDen, AreaLoft, AreaAttic >>]
RegSwapped == [entities |-> << EntLampB, EntFan, EntLampA >>,
               areas |-> << AreaAttic, AreaDen >>]
RegEmpty == [entities |-> << >>, areas |-> << >>]

Registries == {RegHome, RegSwapped, RegEmpty}

Services == {"turn_on", "turn_off", "not_applicable", "toggle", NoneStr}

\* "LAMP" (two entities), "fan-1" (one entity), "ghost" (none)
FriendlyNames == {NONE, << "L", "A", "M", "P" >>, << "f", "a", "n", "-", "1" >>,
                  << "g", "h", "o", "s", "t" >>}

\* " den" (entity list), "LOFT" (area id), "attic" (no lights), "barn" (no such room)
RoomNames == {NONE, << " ", "d", "e", "n" >>, << "L", "O", "F", "T" >>,
              << "a", "t", "t", "i", "c" >>, << "b", "a", "r", "n" >>}

BrightnessValues == {PyInt(150), PyInt(0), PyInt(50), PyInt(100), PyInt(1), PyInt(-5),
                     PyFloat(999), PyFloat(-7), PyStr(<< "7", "0" >>),
                     PyStr(<< " ", "-", "3" >>), PyStr(<< "a", "b", "c" >>),
                     PyStr(<< >>), PyNull, PyList, PyInf}

ColorTempValues == {PyInt(5000), PyInt(1000), PyInt(3000), PyInt(4000), PyInt(2300),
                    PyStr(<< "w", "a", "r", "m" >>), PyNull}

OtherValues == {PyInt(255), PyStr(<< "r", "e", "d" >>)}

\* every data object over the two accepted keys and a foreign one
DataOver(bs, cs, os) ==
    {b @@ c @@ o :
        b \in {EmptyDict} \cup {"brightness_pct" :> x : x \in bs},
        c \in {EmptyDict} \cup {"color_temp_kelvin" :> x : x \in cs},
        o \in {EmptyDict} \cup {"rgb_color" :> x : x \in os}}

AllData == DataOver(BrightnessValues, ColorTempValues, OtherValues)

SomeData ==
    {EmptyDict,
     ("brightness_pct" :> PyInt(150)) @@ ("rgb_color" :> PyInt(255)),
     ("brightness_pct" :> PyInt(0)) @@ ("color_temp_kelvin" :> PyInt(1000)),
     "brightness_pct" :> PyStr(<< "a", "b", "c" >>),
     "color_temp_kelvin" :> PyInf}

Intents == {NoneStr, "reply"}

ResponseTexts == {NONE, << " " >>, << " ", "o", "k" >>}

DecisionsOver(services, fnames, rooms, datas, intents, texts) ==
    [service : services, entity_friendly_name : fnames, room_name : rooms,
     data : datas, intent : intents, response_text : texts]

Decisions == DecisionsOver(Services, FriendlyNames, RoomNames, SomeData, Intents,
                           ResponseTexts)

\* a decision that only carries a data object
DataOnly(data) ==
    [service |-> "turn_on", entity_friendly_name |-> NONE, room_name |-> NONE,
     data |-> data, intent |-> NoneStr, response_text |-> NONE]

\* fail_at ranges over 0..MaxFail: handle_text issues at most two backend calls
MaxFail == 2

-----------------------------------------------------------------------------
(* _llm_request and llm_route (voice_route.py)                              *)

\* JSON values of the LLM endpoint's response body; a string is a tuple of
\* tokens, " " being white space
JNull == [t |-> "null"]
JStr(str) == [t |-> "str", s |-> str]
JList(items) == [t |-> "list", items |-> items]
JDict(d) == [t |-> "dict", d |-> d]

\* truth value of a JSON value in Python
JTruthy(v) ==
    CASE v.t = "null" -> FALSE
      [] v.t = "str" -> v.s # << >>
      [] v.t = "list" -> v.items # << >>
      [] OTHER -> DOMAIN v.d # {}

\* d.get(key, default) on a value that is a dict
JGet(v, key, default) == IF key \in DOMAIN v.d THEN v.d[key] ELSE default

\* what _llm_request gives: the exception it raises or the content it returns
LlmRaise(exc, msg) == [exc |-> exc, msg |-> msg, content |-> NONE]
LlmReturn(content) == [exc |-> "", msg |-> "", content |-> content]

\* empty content returned as an empty string
CheckContent_Lenient(content) ==
    IF ~JTruthy(content) THEN LlmReturn(<< >>)
    ELSE IF content.t # "str" THEN LlmRaise("AttributeError", "strip")
    ELSE LlmReturn(Strip(content.s))

\* lines 191-193: if not content: raise RuntimeError; return content.strip()
CheckContent(content) ==
    IF ~JTruthy(content) THEN LlmRaise("RuntimeError", "LLM response missing content")
    ELSE IF content.t # "str" THEN LlmRaise("AttributeError", "strip")
    ELSE LlmReturn(Strip(content.s))

\* .get("content", "") on message, line 190
ContentOf(message) ==
    IF message.t # "dict" THEN LlmRaise("AttributeError", "get")
    ELSE CheckContent(JGet(message, "content", JStr(<< >>)))

\* choices[0].get("message", {}), line 190
MessageOf(choice) ==
    IF choice.t # "dict" THEN LlmRaise("AttributeError", "get")
    ELSE ContentOf(JGet(choice, "message", JDict(EmptyDict)))

\* lines 187-190, choices being payload.get("choices") or []
FirstChoice(choices) ==
    IF ~JTruthy(choices) THEN LlmRaise("RuntimeError", "LLM response missing choices")
    ELSE IF choices.t = "str" THEN LlmRaise("AttributeError", "get")
    ELSE IF choices.t # "list" THEN LlmRaise("KeyError", "0")
    ELSE MessageOf(choices.items[1])

\* lines 186-187: payload = response.json(); payload.get("choices")
ChoicesOf(payload) ==
    IF payload.t # "dict" THEN LlmRaise("AttributeError", "get")
    ELSE FirstChoice(JGet(payload, "choices", JNull))

\* _llm_request: resp is what the endpoint does with the request.  A request
\* that raises is printed (line 184) and line 185 then meets no response; a
\* status that raises is raised again by line 185.
_llm_request(resp) ==
    CASE resp.transport = "connection_error" -> LlmRaise("UnboundLocalError", "response")
      [] resp.transport = "http_error" -> LlmRaise("HTTPError", "status")
      [] resp.transport = "not_json" -> LlmRaise("JSONDecodeError", "body")
      [] OTHER -> ChoicesOf(resp.body)

\* json.loads(text), line 203: the content is one JSON document or is not
JsonLoads(r) ==
    IF r.exc # "" THEN [exc |-> r.exc, parsed |-> FALSE]
    ELSE IF r.content = << "json" >> THEN [exc |-> "", parsed |-> TRUE]
    ELSE [exc |-> "JSONDecodeError", parsed |-> FALSE]

\* llm_route(settings, user_text, reg), resp being the endpoint's answer
llm_route(resp) == JsonLoads(_llm_request(resp))

\* handle_text lines 102-117, routed being what llm_route gives and result the
\* decision its content holds
AfterRoute(routed, result, reg) ==
    IF routed.exc # ""
    THEN [branch |-> "llm_route", exc |-> routed.exc, calls |-> << >>]
    ELSE Plan(result, reg)

\* handle_text on the endpoint's answer resp
handle_response(resp, result, reg) == AfterRoute(llm_route(resp), result, reg)

\* contents: absent, null, empty, white space, a JSON document (bare and
\* padded), text that is not JSON, and a number
Contents == {JNull, JStr(<< >>), JStr(<< " " >>), JStr(<< "json" >>),
             JStr(<< " ", "json", " " >>), JStr(<< "junk" >>), JList(<< >>),
             JList(<< JNull >>)}

Messages == {JNull, JDict(EmptyDict), JStr(<< "junk" >>)}
            \cup {JDict("content" :> c) : c \in Contents}

Choices == {JNull, JDict(EmptyDict), JDict("finish_reason" :> JStr(<< "junk" >>))}
           \cup {JDict("message" :> m) : m \in Messages}

ChoiceLists == {JNull, JList(<< >>), JStr(<< >>), JStr(<< "junk" >>), JDict(EmptyDict),
                JDict("index" :> JNull)}
               \cup {JList(<< c >>) : c \in Choices}
               \cup {JList(<< c, JDict("message" :> JDict("content" :> JStr(<< "json" >>))) >>) :
                        c \in Choices}

Payloads == {JNull, JList(<< >>), JDict(EmptyDict), JDict("error" :> JStr(<< "junk" >>))}
            \cup {JDict("choices" :> l) : l \in ChoiceLists}

LlmResponses ==
    {[transport |-> tr, body |-> JNull] : tr \in {"connection_error", "http_error", "not_json"}}
    \cup {[transport |-> "ok", body |-> b] : b \in Payloads}

-----------------------------------------------------------------------------
(* load_registry (voice_route.py) and the registry file                     *)

\* a registry file: state is "ok" when it exists and parses, kind is the JSON
\* type of the document and doc its top-level keys when it is an object
RegistryFile(state, kind, doc) == [state |-> state, kind |-> kind, doc |-> doc]

\* load_registry(registry_path): json.loads(Path(registry_path).read_text())
load_registry(file) ==
    IF LoadError(file.state) # ""
    THEN [exc |-> LoadError(file.state), kind |-> "none", doc |-> EmptyDict]
    ELSE [exc |-> "", kind |-> file.kind, doc |-> file.doc]

\* reg.get(key, []) on the loaded document
RegGet(doc, key) == IF key \in DOMAIN doc THEN doc[key] ELSE << >>

\* the registry as _find_room, _validate_llm_result and _registry_rows read it
Snapshot(doc) == [entities |-> RegGet(doc, "entities"), areas |-> RegGet(doc, "areas")]

\* handle_text lines 101-117 on what load_registry gives; a document that is
\* not an object has no get (first met in _registry_rows)
AfterLoad(loaded, result) ==
    IF loaded.exc # ""
    THEN [branch |-> "load_registry", exc |-> loaded.exc, calls |-> << >>]
    ELSE IF loaded.kind # "dict"
    THEN [branch |-> "llm_route", exc |-> "AttributeError", calls |-> << >>]
    ELSE Plan(result, Snapshot(loaded.doc))

\* handle_text on the registry file, the LLM answering with the decision result
handle_file(file, result) == AfterLoad(load_registry(file), result)

\* documents: an empty object, the file as ha_registry_update writes it (no
\* areas key), areas without entities, and a snapshot with both
RegistryDocs ==
    {EmptyDict,
     ("entities" :> RegHome.entities) @@ ("index" :> << >>),
     "areas" :> RegHome.areas,
     ("entities" :> RegHome.entities) @@ ("areas" :> RegHome.areas)}

RegistryFiles ==
    {RegistryFile("missing", "none", EmptyDict), RegistryFile("unparsable", "none", EmptyDict),
     RegistryFile("ok", "list", EmptyDict), RegistryFile("ok", "null", EmptyDict)}
    \cup {RegistryFile("ok", "dict", d) : d \in RegistryDocs}

\* decisions naming a room, an entity, both or neither
FileDecisions ==
    DecisionsOver({"turn_on", "turn_off"}, {NONE, << "f", "a", "n", "-", "1" >>},
                  {NONE, << " ", "d", "e", "n" >>, << "L", "O", "F", "T" >>},
                  {EmptyDict}, {NoneStr}, {NONE})

-----------------------------------------------------------------------------
(* _build_prompt (voice_route.py)                                           *)

\* x in s for strings
Contains(s, x) == \E i \in 1..(Len(s) - Len(x) + 1) : SubSeq(s, i, i + Len(x) - 1) = x

\* the phrases of lines 37-46
ExclusionPhrases ==
    {<< "C", "h", "i", "l", "d", " ", "l", "o", "c", "k" >>,
     << "D", "i", "s", "a", "b", "l", "e", " ", "L", "E", "D" >>,
     << "L", "o", "u", "d", "n", "e", "s", "s" >>,
     << "C", "r", "o", "s", "s", "f", "a", "d", "e" >>,
     << "S", "u", "r", "r", "o", "u", "n", "d" >>,
     << "N", "i", "g", "h", "t", " ", "s", "o", "u", "n", "d" >>,
     << "S", "u", "b", "w", "o", "o", "f", "e", "r" >>,
     << "S", "p", "e", "e", "c", "h", " ", "e", "n", "h", "a", "n", "c", "e", "m", "e", "n", "t" >>}

\* no entity left out
Excluded_Never(friendly_name) == FALSE

\* not all(x not in friendly_name for x in [...]), lines 35-47
Excluded(friendly_name) == \E x \in ExclusionPhrases : Contains(friendly_name, x)

\* [mode_to_attribute[m] for m in supported_modes if m in mode_to_attribute]
RECURSIVE ExtraAttributes(_)
ExtraAttributes(modes) ==
    IF modes = << >> THEN << >>
    ELSE (CASE Head(modes) = "brightness" -> << "brightness" >>
            [] Head(modes) = "color_temp_kelvin" -> << "warmth" >>
            [] OTHER -> << >>) \o ExtraAttributes(Tail(modes))

\* entity.get("supported_color_modes") or []
SupportedModes(entity) ==
    IF "supported_color_modes" \in DOMAIN entity THEN entity.supported_color_modes ELSE << >>

\* the row of an entity, lines 48-60; other_attributes holds the names that
\* ", ".join puts in one string
EntityRow(entity) ==
    [item |-> entity.friendly_name,
     type |-> IF entity.entity_id # << >> THEN SplitDomain(entity.entity_id) ELSE << "entity" >>,
     other_attributes |-> ExtraAttributes(SupportedModes(entity))]

RECURSIVE EntityRows(_)
EntityRows(entities) ==
    IF entities = << >> THEN << >>
    ELSE (IF Excluded(Head(entities).friendly_name) THEN << >>
          ELSE << EntityRow(Head(entities)) >>) \o EntityRows(Tail(entities))

\* the rows of the areas that have a name, lines 61-70
RECURSIVE AreaRows(_)
AreaRows(areas) ==
    IF areas = << >> THEN << >>
    ELSE (IF Truthy(Head(areas).name)
          THEN << [item |-> Head(areas).name, type |-> << "area" >>,
                   other_attributes |-> << >>] >>
          ELSE << >>) \o AreaRows(Tail(areas))

\* _registry_rows(reg)
_registry_rows(reg) == EntityRows(reg.entities) \o AreaRows(reg.areas)

\* max_rows of _select_relevant_rows
MAX_ROWS == 20

\* _select_relevant_rows(user_text, rows): the retriever gives the similarity_top_k
\* rows nearest to user_text; ranking lists the row indices from the nearest on
_select_relevant_rows(rows, ranking) ==
    IF rows = << >> THEN << >>
    ELSE [i \in 1..Min2(MAX_ROWS, Len(rows)) |-> rows[ranking[i]]]

\* the index rebuilt only when there is none
NeedsRebuild_Once(index, cached, rows) == index = NoIndex

\* _RAG_INDEX is None or _RAG_ROWS != rows, line 84
NeedsRebuild(index, cached, rows) == index = NoIndex \/ cached # rows

\* _get_rag_index(rows): the index returned, index and cached being _RAG_INDEX
\* and _RAG_ROWS at the call; a new index holds one document for each row
_get_rag_index(index, cached, rows) ==
    IF NeedsRebuild(index, cached, rows) THEN rows ELSE index

\* _RAG_ROWS after _get_rag_index(rows)
CachedRowsAfter(index, cached, rows) ==
    IF NeedsRebuild(index, cached, rows) THEN rows ELSE cached

\* str.replace("|", " ")
ReplaceBar(str) == [i \in DOMAIN str |-> IF str[i] = "|" THEN " " ELSE str[i]]

\* the table lines of _format_registry_table, after its two header lines
_format_registry_table(rows) ==
    [i \in DOMAIN rows |->
        [item |-> ReplaceBar(rows[i].item), type |-> ReplaceBar(rows[i].type),
         other_attributes |-> rows[i].other_attributes]]

\* actions of _build_prompt, line 120
ActionOptions == << "turn_on", "turn_off", "not_applicable" >>

\* _build_prompt(user_text, reg): the fields of the prompt drawn from the registry
_build_prompt(reg, ranking) ==
    [action_options |-> ActionOptions,
     registry_table |->
        _format_registry_table(_select_relevant_rows(_registry_rows(reg), ranking))]

\* most entities with an ordinary name in a registry given to _build_prompt
MaxPromptEntities == 19

\* supported_color_modes of the i-th entity: absent, both modes, or one known
\* mode after an unknown one
ModesOf(i) ==
    CASE i % 3 = 1 -> "supported_color_modes" :> << "brightness", "color_temp_kelvin" >>
      [] i % 3 = 2 -> "supported_color_modes" :> << "onoff", "brightness" >>
      [] OTHER -> EmptyDict

\* the i-th entity: "Lamp a", "Lamp b", ...
PromptEntity(i) ==
    ModesOf(i) @@ MakeEntity(<< "light", ".", LowerLetters[i] >>,
                             << "L", "a", "m", "p", " ", LowerLetters[i] >>)

\* sub-controls, and a name that holds a phrase in another case
EntCrossfade ==
    MakeEntity(<< "switch", ".", "crossfade" >>, << "L", "i", "v", "i", "n", "g", " ", "R", "o", "o", "m", " ", "C", "r", "o", "s", "s", "f", "a", "d", "e" >>)
EntChildLock ==
    MakeEntity(<< "switch", ".", "child_lock" >>, << "H", "u", "m", "i", "d", "i", "f", "i", "e", "r", " ", "C", "h", "i", "l", "d", " ", "l", "o", "c", "k" >>)
EntLowerCase ==
    MakeEntity(<< "switch", ".", "fan_lock" >>, << "F", "a", "n", " ", "c", "h", "i", "l", "d", " ", "l", "o", "c", "k" >>)

AreaUnnamed == [name |-> << >>, area_id |-> << "hall_id" >>, light_entities |-> << >>]

\* a registry of n ordinary entities, the three above, three named areas and
\* an unnamed one
PromptRegistry(n) ==
    [entities |-> << EntCrossfade >> \o [i \in 1..n |-> PromptEntity(i)]
                  \o << EntChildLock, EntLowerCase >>,
     areas |-> << AreaDen, AreaUnnamed, AreaLoft, AreaAttic >>]

PromptRegistries ==
    {RegEmpty, PromptRegistry(2), PromptRegistry(MAX_ROWS - 4),
     PromptRegistry(MaxPromptEntities)}

\* rankings of n rows: each row nearest in turn, in both directions
Rankings(n) ==
    IF n = 0 THEN {<< >>}
    ELSE {[i \in 1..n |-> ((i + r - 1) % n) + 1] : r \in 0..(n - 1)}
         \cup {[i \in 1..n |-> ((n - i + r) % n) + 1] : r \in 0..(n - 1)}

PromptInputs ==
    UNION {{[reg |-> r, ranking |-> q] : q \in Rankings(Len(_registry_rows(r)))} :
              r \in PromptRegistries}

-----------------------------------------------------------------------------
(* transcribe_with_fallback (server.py) *)

\* hundredths
LANG_PROB_FALLBACK == 60
MIN_CHARS_FALLBACK == 3

\* " ".join(parts)
RECURSIVE Join(_)
Join(parts) ==
    IF parts = << >> THEN << >>
    ELSE IF Len(parts) = 1 THEN parts[1]
    ELSE parts[1] \o << " " >> \o Join(Tail(parts))

\* getattr(obj, name, default)
getattr(obj, name, default) == IF name \in DOMAIN obj THEN obj[name] ELSE default

\* transcribe_once(model, ...): decoded is what model.transcribe yields for the clip
transcribe_once(decoded) ==
    [info |-> decoded.info,
     text |-> Strip(Join([i \in DOMAIN decoded.segments |-> Strip(decoded.segments[i])]))]

\* the escalation test with an inclusive probability bound
need_fallback_Inclusive(text, lang_prob) ==
    Len(text) < MIN_CHARS_FALLBACK \/ lang_prob <= LANG_PROB_FALLBACK

\* need_fallback of transcribe_with_fallback
need_fallback(text, lang_prob) ==
    Len(text) < MIN_CHARS_FALLBACK \/ lang_prob < LANG_PROB_FALLBACK

\* the robust result checked again, the fast one kept when it fails the test too
Fallback_Rechecked(first, second) ==
    IF need_fallback(first.text, getattr(first.info, "language_probability", 100))
       /\ ~need_fallback(second.text, getattr(second.info, "language_probability", 100))
    THEN [info |-> second.info, text |-> second.text, used |-> "medium(float16)",
          ran |-> << "small", "medium" >>]
    ELSE [info |-> first.info, text |-> first.text, used |-> "small(int8_float16)",
          ran |-> IF need_fallback(first.text,
                                   getattr(first.info, "language_probability", 100))
                  THEN << "small", "medium" >> ELSE << "small" >>]

\* lines 115-149, first and second being what the two transcribe_once calls give
\* where they are made; ran lists the models run, in order
Fallback(first, second) ==
    IF need_fallback(first.text, getattr(first.info, "language_probability", 100))
    THEN [info |-> second.info, text |-> second.text, used |-> "medium(float16)",
          ran |-> << "small", "medium" >>]
    ELSE [info |-> first.info, text |-> first.text, used |-> "small(int8_float16)",
          ran |-> << "small" >>]

\* transcribe_with_fallback(path, ...): clip gives what each model decodes from the file
transcribe_with_fallback(clip) ==
    Fallback(transcribe_once(clip.fast), transcribe_once(clip.robust))

\* longest list of segments a model yields
MaxSegments == 2

SegmentTexts == {<< >>, << " " >>, << "a" >>, << "a", "b" >>, << " ", "a", "b", " " >>,
                 << "a", "b", "c" >>}

RECURSIVE SeqsUpTo(_, _)
SeqsUpTo(S, n) ==
    IF n = 0 THEN {<< >>}
    ELSE LET shorter == SeqsUpTo(S, n - 1)
         IN  shorter \cup {Append(q, x) : q \in shorter, x \in S}

Infos == {"language" :> "en"} \cup
         {("language" :> "en") @@ ("language_probability" :> p) :
             p \in {0, LANG_PROB_FALLBACK - 1, LANG_PROB_FALLBACK, LANG_PROB_FALLBACK + 1, 100}}

FastDecodings == [segments : SeqsUpTo(SegmentTexts, MaxSegments), info : Infos]

RobustDecodings ==
    {[segments |-> << << "o", "n" >> >>, info |-> ("language" :> "pt") @@ ("language_probability" :> 30)],
     [segments |-> << << "l", "a", "m", "p" >> >>, info |-> "language" :> "en"]}

Clips == [fast : FastDecodings, robust : RobustDecodings]

-----------------------------------------------------------------------------
(* run_listener (hey_george_listener.py) and main / router_process          *)
(* (voice_assistant.py)                                                     *)

\* ten-thousandths
TRIGGER_THRESHOLD == 7500
REARM_THRESHOLD == 3500
REARM_SILENCE_FRAMES == 5

\* most texts waiting in router_queue
MaxQueue == 2

FrameScores == {REARM_THRESHOLD - 1, REARM_THRESHOLD, TRIGGER_THRESHOLD - 1,
                TRIGGER_THRESHOLD}

\* the "text" field of the answers of the STT endpoint
HeardTexts == {<< >>, << " " >>, << "o", "n" >>, << " ", "o", "n", "\n" >>,
               << "o", "f", "f" >>}

\* transcribe(stt_url, wav_path), line 87: response.json().get("text", "").strip()
transcribe(heard) == Strip(heard)

\* the empty text; cur holds it while no text is being handled
NoText == << >>

\* stripped transcriptions that are not empty
Texts == {transcribe(heard) : heard \in HeardTexts} \ {NoText}

\* on_text called whatever the text is
HandsOff_Always(text) == TRUE

\* if text:, line 172
HandsOff(text) == text # NoText

\* how far a capture gets: the backend call (set_volume, ready cue, end cue) or
\* the transcription that raises, or the transcription it obtains
CaptureOutcomes == {"set_volume_raises", "ready_cue_raises", "end_cue_raises",
                    "transcribe_raises", "empty_text", "text"}

\* the capture with the cooldown held before the clip is transcribed
CaptureSteps_CooldownFirst(outcome) ==
    CASE outcome = "set_volume_raises" -> << "set_volume" >>
      [] outcome = "ready_cue_raises" -> << "set_volume", "ready_cue" >>
      [] OTHER ->
            << "set_volume", "ready_cue", "sleep", "record_wav", "end_cue", "cooldown",
               "transcribe", "on_text", "remove_wav", "disarm" >>

\* the steps run_listener performs on a trigger, lines 151-182
CaptureSteps(outcome) ==
    CASE outcome = "set_volume_raises" -> << "set_volume" >>
      [] outcome = "ready_cue_raises" -> << "set_volume", "ready_cue" >>
      [] outcome = "end_cue_raises" ->
            << "set_volume", "ready_cue", "sleep", "record_wav", "end_cue" >>
      [] outcome = "transcribe_raises" ->
            << "set_volume", "ready_cue", "sleep", "record_wav", "end_cue", "transcribe",
               "remove_wav" >>
      [] outcome = "empty_text" ->
            << "set_volume", "ready_cue", "sleep", "record_wav", "end_cue", "transcribe",
               "remove_wav", "cooldown", "disarm" >>
      [] OTHER ->
            << "set_volume", "ready_cue", "sleep", "record_wav", "end_cue", "transcribe",
               "on_text", "remove_wav", "cooldown", "disarm" >>

\* the capture steps that make an HTTP request: set_volume and play_on_sonos
\* through call_service, transcribe through requests.post
NetworkSteps == {"set_volume", "ready_cue", "end_cue", "transcribe"}

\* the step that plays capture_error.wav (play_error_sound_on_sonos); no step
\* of run_listener is this one
ErrorCueStep == "error_cue"

\* the exception a capture lets out of run_listener ("" for none)
CaptureRaises(outcome) == outcome \notin {"empty_text", "text"}

\* the trigger test with a strict comparison
Triggers_Strict(isArmed, score) == isArmed /\ score > TRIGGER_THRESHOLD

\* armed and score >= TRIGGER_THRESHOLD, line 148
Triggers(isArmed, score) == isArmed /\ score >= TRIGGER_THRESHOLD

\* the silence test with an inclusive comparison
IsSilence_Inclusive(score) == score <= REARM_THRESHOLD

\* score < REARM_THRESHOLD, line 184
IsSilence(score) == score < REARM_THRESHOLD

\* re-armed one silent frame early
Rearms_Early(frames) == frames >= REARM_SILENCE_FRAMES - 1

\* silence_frames >= REARM_SILENCE_FRAMES, line 188
Rearms(frames) == frames >= REARM_SILENCE_FRAMES

\* the last REARM_SILENCE_FRAMES entries of a history
LastFrames(h) ==
    IF Len(h) <= REARM_SILENCE_FRAMES THEN h
    ELSE SubSeq(h, Len(h) - REARM_SILENCE_FRAMES + 1, Len(h))

NoFrame == [score |-> 0, armed_before |-> TRUE, did |-> "none", outcome |-> "",
            heard |-> << >>, text |-> NoText, steps |-> << >>, restarted |-> FALSE]

NoLast == [branch |-> "none", exc |-> "", calls |-> << >>]

\* no queue given to start_router
NoQueue == 0

\* start_router with a new queue whatever it is given
start_router_Fresh(queue, made) == made + 1

\* start_router(ctx, queue): the queue the new process is started on, made being
\* the number of queue objects created so far (lines 134-135)
start_router(queue, made) == IF queue = NoQueue THEN made + 1 ELSE queue

\* a router started at every utterance
NeedsRestart_Always(alive) == TRUE

\* not router_proc.is_alive(), line 148
NeedsRestart(alive) == ~alive

\* the texts waiting at the restart lost
PutAfterRestart_Drop(queue, text) ==
    /\ main_queue' = queue
    /\ proc_queue' = queue
    /\ queues_made' = Max2(queues_made, queue)
    /\ router_queue' = << text >>

\* router_queue.put(text) after a restart onto queue: the texts of the queue
\* main held stay when queue is that queue
PutAfterRestart(queue, text) ==
    /\ main_queue' = queue
    /\ proc_queue' = queue
    /\ queues_made' = Max2(queues_made, queue)
    /\ router_queue' = Append(IF queue = main_queue THEN router_queue ELSE << >>, text)

\* on_text(text) of main: start a router in place of a dead one, then put
on_text(text) ==
    /\ Len(router_queue) < MaxQueue
    /\ IF NeedsRestart(router_alive)
       THEN /\ router_alive' = TRUE /\ wpc' = "idle" /\ cur' = NoText
            /\ orphans' = orphans + (IF router_alive THEN 1 ELSE 0)
            /\ PutAfterRestart(start_router(main_queue, queues_made), text)
       ELSE /\ router_queue' = Append(router_queue, text)
            /\ UNCHANGED << router_alive, wpc, cur, orphans, queueVars >>
    /\ UNCHANGED last

\* an exception leaves run_listener and main: the process exits and its daemon
\* child, the router, is terminated with it
ProcessExit ==
    /\ listener_alive' = FALSE
    /\ router_alive' = FALSE
    /\ wpc' = "dead"
    /\ orphans' = 0
    /\ UNCHANGED << armed, silence_frames, recent, router_queue, cur, last, queueVars >>

\* the capture of a clip for which transcribe gives text (NoText when a call
\* raises before it returns)
CaptureWith(score, outcome, heard, text) ==
    /\ listener_alive
    /\ Triggers(armed, score)
    /\ IF CaptureRaises(outcome) THEN heard = << >>
       ELSE (outcome = "text") = HandsOff(text)
    /\ last_frame' = [score |-> score, armed_before |-> armed, did |-> "capture",
                      outcome |-> outcome, heard |-> heard, text |-> text,
                      steps |-> CaptureSteps(outcome),
                      restarted |-> (outcome = "text" /\ NeedsRestart(router_alive))]
    /\ IF CaptureRaises(outcome)
       THEN ProcessExit
       ELSE /\ armed' = FALSE
            /\ silence_frames' = 0
            /\ recent' = << >>
            /\ UNCHANGED listener_alive
            /\ IF outcome = "text" THEN on_text(text) ELSE UNCHANGED workerVars
    /\ UNCHANGED << funcVars, sttVars, callVars, ragVars >>

\* one loop iteration that triggers: lines 148-182, heard being the text the STT
\* endpoint answers
Capture(score, outcome, heard) ==
    CaptureWith(score, outcome, heard,
                IF CaptureRaises(outcome) THEN NoText ELSE transcribe(heard))

\* one loop iteration while not armed: lines 183-189
Rearm(score) ==
    /\ listener_alive
    /\ ~Triggers(armed, score)
    /\ ~armed
    /\ silence_frames' = (IF IsSilence(score) THEN silence_frames + 1 ELSE 0)
    /\ armed' = Rearms(silence_frames')
    /\ recent' = LastFrames(Append(recent, score))
    /\ last_frame' = [score |-> score, armed_before |-> armed, did |-> "rearm",
                      outcome |-> "", heard |-> << >>, text |-> NoText,
                      steps |-> << >>,
                      restarted |-> FALSE]
    /\ UNCHANGED << listener_alive, workerVars, funcVars, sttVars, callVars, ragVars >>

\* one loop iteration while armed that does not trigger
Idle(score) ==
    /\ listener_alive
    /\ ~Triggers(armed, score)
    /\ armed
    /\ last_frame' = [score |-> score, armed_before |-> armed, did |-> "idle",
                      outcome |-> "", heard |-> << >>, text |-> NoText,
                      steps |-> << >>,
                      restarted |-> FALSE]
    /\ UNCHANGED << armed, silence_frames, recent, listener_alive, workerVars, funcVars,
                    sttVars, callVars, ragVars >>

\* router_process: text = text_queue.get()
Dequeue ==
    /\ router_alive
    /\ wpc = "idle"
    /\ proc_queue = main_queue
    /\ router_queue # << >>
    /\ cur' = Head(router_queue)
    /\ router_queue' = Tail(router_queue)
    /\ wpc' = "handling"
    /\ last' = NoLast
    /\ UNCHANGED << router_alive, orphans, queueVars, listenerVars, funcVars, sttVars,
                    callVars, ragVars >>

LoadStates == {"ok", "missing", "unparsable"}

LlmAnswers == {"decision", "connection_error", "http_error", "no_choices",
               "empty_content", "bad_json"}

\* the decisions the router is given in the system specification: a command that
\* validates, one that does not, and a reply
RouterDecisions ==
    DecisionsOver({"turn_on", NoneStr}, {<< "f", "a", "n", "-", "1" >>}, {NONE},
                  {EmptyDict}, {NoneStr}, {NONE, << " ", "o", "k" >>})

\* an exception of handle_text leaves router_process, which has no handler:
\* the worker process ends
WorkerSurvives(h) == h.exc = ""

\* what one handle_text call meets: the registry file, the LLM's answer and the
\* backend call that raises; a failure before the decision leaves the rest unused
RouterInputs ==
    {[load |-> l, llm |-> "decision", result |-> DataOnly(EmptyDict), fail_at |-> 0] :
        l \in LoadStates \ {"ok"}}
    \cup {[load |-> "ok", llm |-> a, result |-> DataOnly(EmptyDict), fail_at |-> 0] :
            a \in LlmAnswers \ {"decision"}}
    \cup [load : {"ok"}, llm : {"decision"}, result : RouterDecisions, fail_at : 0..MaxFail]

\* router_process after handle_text: an exception ends the process
AfterHandle(h) ==
    /\ last' = [branch |-> h.branch, exc |-> h.exc, calls |-> h.calls]
    /\ IF WorkerSurvives(h)
       THEN wpc' = "idle" /\ UNCHANGED router_alive
       ELSE wpc' = "dead" /\ router_alive' = FALSE

\* router_process: handle_text(settings, text), line 127
HandleText ==
    /\ router_alive
    /\ wpc = "handling"
    /\ \E i \in RouterInputs :
          AfterHandle(handle_text(i.load, RegHome, i.llm, i.result, i.fail_at))
    /\ cur' = NoText
    /\ UNCHANGED << router_queue, orphans, queueVars, listenerVars, funcVars, sttVars,
                    callVars, ragVars >>

\* seconds; NoTimeout for a requests.post given no timeout argument, which
\* waits for the answer without limit
NoTimeout == 0
BACKEND_TIMEOUT == 10
STT_TIMEOUT == 120

\* the timeout of requests.post in _llm_request: none is passed
LlmTimeout == NoTimeout

\* handle_text when the LLM endpoint accepts the request and never answers: the
\* post returns by raising Timeout (a RequestException) only if it has a timeout
LlmNeverAnswers ==
    /\ router_alive
    /\ wpc = "handling"
    /\ IF LlmTimeout = NoTimeout
       THEN wpc' = "blocked" /\ UNCHANGED << cur, last, router_alive >>
       ELSE /\ AfterHandle(handle_text("ok", RegHome, "connection_error",
                                       DataOnly(EmptyDict), 0))
            /\ cur' = NoText
    /\ UNCHANGED << router_queue, orphans, queueVars, listenerVars, funcVars, sttVars,
                    callVars, ragVars >>

InitListener ==
    /\ armed = TRUE
    /\ silence_frames = 0
    /\ listener_alive = TRUE
    /\ last_frame = NoFrame
    /\ recent = << >>

\* main: start_router(ctx), then run_listener
InitWorker ==
    /\ router_queue = << >>
    /\ router_alive = TRUE
    /\ wpc = "idle"
    /\ cur = NoText
    /\ last = NoLast
    /\ main_queue = start_router(NoQueue, 0)
    /\ proc_queue = main_queue
    /\ queues_made = main_queue
    /\ orphans = 0

NoFunc ==
    /\ phase = "system"
    /\ in_reg = RegEmpty
    /\ in_result = DataOnly(EmptyDict)
    /\ in_fail = 0
    /\ out = << >>

NoStt == stt_in = << >> /\ stt_out = << >>

NoCall == arg = << >> /\ ret = << >>

\* no decision validated yet
NoValidated == [result |-> DataOnly(EmptyDict), valid |-> Raise("NotCalled", "")]

NoRag ==
    /\ registry_file = RegHome
    /\ _RAG_INDEX = NoIndex
    /\ _RAG_ROWS = NoIndex
    /\ hpc = "idle"
    /\ loaded_reg = RegEmpty
    /\ prompt_table = << >>
    /\ retrieved_from = << >>
    /\ validated = NoValidated

Init == InitListener /\ InitWorker /\ NoFunc /\ NoStt /\ NoCall /\ NoRag

Next ==
    \/ \E score \in FrameScores, outcome \in CaptureOutcomes, heard \in HeardTexts :
          Capture(score, outcome, heard)
    \/ \E score \in FrameScores : Rearm(score)
    \/ \E score \in FrameScores : Idle(score)
    \/ Dequeue
    \/ HandleText
    \/ LlmNeverAnswers

Spec == Init /\ [][Next]_vars

-----------------------------------------------------------------------------
(* Function-level specifications: the inputs are drawn by Init, one action   *)
(* applies the function.                                                     *)

\* _validate_llm_result and handle_text on every decision and registry
InitHandle ==
    /\ InitListener /\ InitWorker /\ NoStt /\ NoCall /\ NoRag
    /\ phase = "input"
    /\ in_reg \in Registries
    /\ in_result \in Decisions
    /\ in_fail \in 0..MaxFail
    /\ out = << >>

ApplyHandle ==
    /\ phase = "input"
    /\ phase' = "done"
    /\ out' = [valid |-> _validate_llm_result(in_result, in_reg),
               handled |-> handle_text("ok", in_reg, "decision", in_result, in_fail)]
    /\ UNCHANGED << in_reg, in_result, in_fail, listenerVars, workerVars, sttVars, callVars, ragVars >>

SpecHandle == InitHandle /\ [][ApplyHandle]_vars

\* _clean_data on every data object
InitClean ==
    /\ InitListener /\ InitWorker /\ NoStt /\ NoCall /\ NoRag
    /\ phase = "input"
    /\ in_reg = RegEmpty
    /\ in_result \in {DataOnly(d) : d \in AllData}
    /\ in_fail = 0
    /\ out = << >>

ApplyClean ==
    /\ phase = "input"
    /\ phase' = "done"
    /\ out' = _clean_data(in_result.data)
    /\ UNCHANGED << in_reg, in_result, in_fail, listenerVars, workerVars, sttVars, callVars, ragVars >>

SpecClean == InitClean /\ [][ApplyClean]_vars

\* transcribe_with_fallback on every clip
InitStt ==
    /\ InitListener /\ InitWorker /\ NoCall /\ NoRag
    /\ phase = "input"
    /\ in_reg = RegEmpty
    /\ in_result = DataOnly(EmptyDict)
    /\ in_fail = 0
    /\ out = << >>
    /\ stt_in \in Clips
    /\ stt_out = << >>

ApplyStt ==
    /\ phase = "input"
    /\ phase' = "done"
    /\ stt_out' = transcribe_with_fallback(stt_in)
    /\ UNCHANGED << stt_in, in_reg, in_result, in_fail, out, listenerVars, workerVars, callVars, ragVars >>

SpecStt == InitStt /\ [][ApplyStt]_vars

\* _llm_request, llm_route and handle_text on every answer of the LLM endpoint
InitLlm ==
    /\ InitListener /\ InitWorker /\ NoStt
    /\ phase = "input"
    /\ in_reg = RegHome
    /\ in_result \in RouterDecisions
    /\ in_fail = 0
    /\ out = << >>
    /\ arg \in LlmResponses
    /\ ret = << >>
    /\ NoRag

ApplyLlm ==
    /\ phase = "input"
    /\ phase' = "done"
    /\ ret' = [request |-> _llm_request(arg), routed |-> llm_route(arg),
               handled |-> handle_response(arg, in_result, in_reg)]
    /\ UNCHANGED << arg, ragVars, in_reg, in_result, in_fail, out, listenerVars, workerVars, sttVars >>

SpecLlm == InitLlm /\ [][ApplyLlm]_vars

\* both copies of norm on every string, once and twice
InitNorm ==
    /\ InitListener /\ InitWorker /\ NoStt
    /\ phase = "input"
    /\ in_reg = RegEmpty
    /\ in_result = DataOnly(EmptyDict)
    /\ in_fail = 0
    /\ out = << >>
    /\ arg \in NormInputs
    /\ ret = << >>
    /\ NoRag

ApplyNorm ==
    /\ phase = "input"
    /\ phase' = "done"
    /\ ret' = [route |-> norm(arg), route_again |-> norm(norm(arg)),
               registry |-> registry_norm(arg),
               registry_again |-> registry_norm(registry_norm(arg))]
    /\ UNCHANGED << arg, ragVars, in_reg, in_result, in_fail, out, listenerVars, workerVars, sttVars >>

SpecNorm == InitNorm /\ [][ApplyNorm]_vars

\* load_registry and handle_text on every registry file
InitLoad ==
    /\ InitListener /\ InitWorker /\ NoStt
    /\ phase = "input"
    /\ in_reg = RegEmpty
    /\ in_result \in FileDecisions
    /\ in_fail = 0
    /\ out = << >>
    /\ arg \in RegistryFiles
    /\ ret = << >>
    /\ NoRag

ApplyLoad ==
    /\ phase = "input"
    /\ phase' = "done"
    /\ ret' = [loaded |-> load_registry(arg), handled |-> handle_file(arg, in_result)]
    /\ UNCHANGED << arg, ragVars, in_reg, in_result, in_fail, out, listenerVars, workerVars, sttVars >>

SpecLoad == InitLoad /\ [][ApplyLoad]_vars

\* _build_prompt on every registry and ranking
InitPrompt ==
    /\ InitListener /\ InitWorker /\ NoStt
    /\ phase = "input"
    /\ in_reg = RegEmpty
    /\ in_result = DataOnly(EmptyDict)
    /\ in_fail = 0
    /\ out = << >>
    /\ arg \in PromptInputs
    /\ ret = << >>
    /\ NoRag

ApplyPrompt ==
    /\ phase = "input"
    /\ phase' = "done"
    /\ ret' = _build_prompt(arg.reg, arg.ranking)
    /\ UNCHANGED << arg, ragVars, in_reg, in_result, in_fail, out, listenerVars, workerVars, sttVars >>

SpecPrompt == InitPrompt /\ [][ApplyPrompt]_vars

\* handle_text, step by step, in one router process while the registry file is
\* rewritten
RegRewired == [RegHome EXCEPT !.areas[1].light_entities = << LIGHT_B >>]

SnapshotRegistries == {RegHome, RegRewired, RegSwapped, RegEmpty, PromptRegistry(2)}

\* ha_registry_update: tmp.replace(OUT_PATH) puts a new registry in place at once
ReplaceFile(r) ==
    /\ r # registry_file
    /\ registry_file' = r
    /\ UNCHANGED << _RAG_INDEX, _RAG_ROWS, hpc, loaded_reg, prompt_table, retrieved_from,
                    validated >>

\* reg = load_registry(...), line 101
LoadStep ==
    /\ hpc = "idle"
    /\ hpc' = "loaded"
    /\ loaded_reg' = registry_file
    /\ UNCHANGED << registry_file, _RAG_INDEX, _RAG_ROWS, prompt_table, retrieved_from,
                    validated >>

\* _build_prompt(user_text, reg) for the rows of reg, the retriever ranking the
\* documents of the index it is given
BuildWith(rows, ranking) ==
    /\ _RAG_INDEX' = (IF rows = << >> THEN _RAG_INDEX
                      ELSE _get_rag_index(_RAG_INDEX, _RAG_ROWS, rows))
    /\ _RAG_ROWS' = (IF rows = << >> THEN _RAG_ROWS
                     ELSE CachedRowsAfter(_RAG_INDEX, _RAG_ROWS, rows))
    /\ retrieved_from' = (IF rows = << >> THEN << >>
                          ELSE _get_rag_index(_RAG_INDEX, _RAG_ROWS, rows))
    /\ prompt_table' =
          _format_registry_table(
             IF rows = << >> THEN << >>
             ELSE _select_relevant_rows(_get_rag_index(_RAG_INDEX, _RAG_ROWS, rows),
                                        ranking))

\* result = llm_route(settings, text, reg), line 102
RouteStep(ranking) ==
    /\ hpc = "loaded"
    /\ hpc' = "routed"
    /\ BuildWith(_registry_rows(loaded_reg), ranking)
    /\ UNCHANGED << registry_file, loaded_reg, validated >>

\* _validate_llm_result(result, reg), line 109
ValidateStep(result) ==
    /\ hpc = "routed"
    /\ hpc' = "idle"
    /\ validated' = [result |-> result, valid |-> _validate_llm_result(result, loaded_reg)]
    /\ UNCHANGED << registry_file, _RAG_INDEX, _RAG_ROWS, loaded_reg, prompt_table,
                    retrieved_from >>

\* a new router process starts with the module globals unset
NewProcess ==
    /\ hpc = "idle"
    /\ _RAG_INDEX # NoIndex
    /\ _RAG_INDEX' = NoIndex
    /\ _RAG_ROWS' = NoIndex
    /\ UNCHANGED << registry_file, hpc, loaded_reg, prompt_table, retrieved_from,
                    validated >>

\* the rankings the retriever may give for the index of this request
RankingsNow ==
    Rankings(Len(_get_rag_index(_RAG_INDEX, _RAG_ROWS, _registry_rows(loaded_reg))))

InitSnapshot ==
    /\ InitListener /\ InitWorker /\ NoFunc /\ NoStt /\ NoCall /\ NoRag

NextSnapshot ==
    /\ \/ \E r \in SnapshotRegistries : ReplaceFile(r)
       \/ LoadStep
       \/ \E ranking \in RankingsNow : RouteStep(ranking)
       \/ \E result \in RouterDecisions : ValidateStep(result)
       \/ NewProcess
    /\ UNCHANGED << listenerVars, workerVars, funcVars, sttVars, callVars >>

SpecSnapshot == InitSnapshot /\ [][NextSnapshot]_vars

-----------------------------------------------------------------------------
(* Properties of the router worker and the listener (Spec)                  *)

\* C1: the router worker catches any exception an utterance raises: while the
\* listener runs, the worker that has handled an utterance is alive and idle,
\* ready for the next one.
C1_WorkerStaysAlive ==
    (listener_alive /\ last.branch # "none") => (router_alive /\ wpc = "idle")

\* C3: a transcription that fails costs only that utterance: the listener is
\* still running after it.
C3_ListenerSurvivesTranscribeFailure ==
    (last_frame.did = "capture" /\ last_frame.outcome = "transcribe_raises")
        => listener_alive

\* C4: the listener starts armed, and a frame begins a capture exactly when the
\* listener is armed and the frame's score is at least TRIGGER_THRESHOLD.
C4_CaptureIffArmedAndScore ==
    /\ last_frame.did = "none" => armed
    /\ last_frame.did # "none" =>
          ((last_frame.did = "capture")
              <=> (last_frame.armed_before /\ last_frame.score >= TRIGGER_THRESHOLD))

\* a capture begun by a score of exactly TRIGGER_THRESHOLD
C4_Witness ==
    /\ last_frame.did = "capture"
    /\ last_frame.armed_before
    /\ last_frame.score = TRIGGER_THRESHOLD

\* C5: after a capture the listener re-arms exactly when the last
\* REARM_SILENCE_FRAMES frames all scored strictly below REARM_THRESHOLD; a
\* frame at or above REARM_THRESHOLD puts the count back to zero.
C5_RearmAfterSilence ==
    /\ last_frame.did = "rearm" =>
          (armed <=> (/\ Len(recent) = REARM_SILENCE_FRAMES
                      /\ \A i \in DOMAIN recent : recent[i] < REARM_THRESHOLD))
    /\ (last_frame.did = "rearm" /\ last_frame.score >= REARM_THRESHOLD) =>
          (silence_frames = 0 /\ ~armed)
    /\ ~armed => silence_frames < REARM_SILENCE_FRAMES

\* the listener re-armed by the fifth silent frame in a row
C5_Witness ==
    /\ last_frame.did = "rearm"
    /\ armed
    /\ Len(recent) = REARM_SILENCE_FRAMES
    /\ silence_frames = REARM_SILENCE_FRAMES

-----------------------------------------------------------------------------
(* Properties of transcribe_with_fallback (SpecStt)                         *)

\* C6: transcribe_with_fallback runs the robust model exactly when the fast
\* model's text has fewer than MIN_CHARS_FALLBACK characters or its language
\* probability is below LANG_PROB_FALLBACK.
C6_EscalatesIffShortOrUnsure ==
    phase = "done" =>
        LET text == transcribe_once(stt_in.fast).text
            prob == IF "language_probability" \in DOMAIN stt_in.fast.info
                    THEN stt_in.fast.info.language_probability ELSE 100
            escalate == Len(text) < 3 \/ prob < 60
        IN  /\ escalate => stt_out.ran = << "small", "medium" >>
            /\ ~escalate => stt_out.ran = << "small" >>

\* three characters at probability 0.60 stay with the fast model
C6_Witness ==
    /\ phase = "done"
    /\ Len(transcribe_once(stt_in.fast).text) = 3
    /\ "language_probability" \in DOMAIN stt_in.fast.info
    /\ stt_in.fast.info.language_probability = 60
    /\ stt_out.ran = << "small" >>

\* C20: transcribe_with_fallback runs the fast model once and the robust model
\* at most once after it; when the robust model ran, the text and info returned
\* are the robust model's, tagged medium(float16), whatever they are; otherwise
\* they are the fast model's, tagged small(int8_float16).
C20_TwoTierResult ==
    phase = "done" =>
        /\ stt_out.ran \in {<< "small" >>, << "small", "medium" >>}
        /\ stt_out.ran = << "small", "medium" >> =>
              /\ stt_out.text = transcribe_once(stt_in.robust).text
              /\ stt_out.info = stt_in.robust.info
              /\ stt_out.used = "medium(float16)"
        /\ stt_out.ran = << "small" >> =>
              /\ stt_out.text = transcribe_once(stt_in.fast).text
              /\ stt_out.info = stt_in.fast.info
              /\ stt_out.used = "small(int8_float16)"

\* an escalation whose robust text is short and unsure as well is returned as it is
C20_Witness ==
    /\ phase = "done"
    /\ stt_out.ran = << "small", "medium" >>
    /\ stt_out.used = "medium(float16)"
    /\ stt_out.text = << "o", "n" >>
    /\ stt_out.info.language_probability = 30
    /\ Len(transcribe_once(stt_in.fast).text) = 3

-----------------------------------------------------------------------------
(* Properties of _validate_llm_result and handle_text (SpecHandle)          *)

\* the entities of reg whose normalized friendly name is that of name
SameName(reg, name) ==
    {i \in DOMAIN reg.entities : reg.entities[i].friendly_norm = norm(name)}

\* C7: a friendly name that several entities share fails as not found; no
\* entity is picked and no device action is taken.
C7_AmbiguousNameNotFound ==
    (/\ phase = "done"
     /\ in_result.service \in {"turn_on", "turn_off"}
     /\ ~Truthy(in_result.room_name)
     /\ Truthy(in_result.entity_friendly_name)
     /\ Cardinality(SameName(in_reg, in_result.entity_friendly_name)) > 1)
        => (out.valid.exc = "RuntimeError" /\ out.handled.branch # "execute")

\* C8: a service other than turn_on and turn_off makes _validate_llm_result
\* fail with "Invalid service from LLM", whatever room or entity the decision
\* names, and handle_text then makes no device action call.
C8_InvalidServiceRejected ==
    (phase = "done" /\ in_result.service \notin {"turn_on", "turn_off"}) =>
        /\ out.valid.exc = "RuntimeError"
        /\ out.valid.msg = "Invalid service from LLM"
        /\ out.handled.branch \in {"reply", "validation_error"}
        /\ \A k \in DOMAIN out.handled.calls :
              out.handled.calls[k].service \in {"volume_set", "speak"}

\* a service outside the allowed set with a room and an entity that resolve
C8_Witness ==
    /\ phase = "done"
    /\ in_result.service = "not_applicable"
    /\ in_reg = RegHome
    /\ in_result.room_name = << " ", "d", "e", "n" >>
    /\ in_result.entity_friendly_name = << "f", "a", "n", "-", "1" >>
    /\ out.handled.branch = "validation_error"

\* C9: when the decision names a room, only the room is looked up: the entity
\* name plays no part in the outcome, a room that is not found fails with "Room
\* not found for name" even if the entity name resolves, and a success targets
\* the light domain.
C9_RoomOnly ==
    (/\ phase = "done"
     /\ in_result.service \in {"turn_on", "turn_off"}
     /\ Truthy(in_result.room_name)) =>
        /\ out.valid =
              _validate_llm_result([in_result EXCEPT !.entity_friendly_name = NONE], in_reg)
        /\ (\A i \in DOMAIN in_reg.areas :
               norm(in_reg.areas[i].name) # norm(in_result.room_name)) =>
              (/\ out.valid.exc = "RuntimeError"
               /\ out.valid.msg = "Room not found for name"
               /\ out.handled.branch # "execute")
        /\ out.valid.exc = "" =>
              (/\ out.valid.domain = << "light" >>
               /\ \E i \in DOMAIN in_reg.areas :
                     /\ norm(in_reg.areas[i].name) = norm(in_result.room_name)
                     /\ \/ /\ "area_id" \in DOMAIN out.valid.payload
                           /\ out.valid.payload.area_id = in_reg.areas[i].area_id
                        \/ /\ "entity_id" \in DOMAIN out.valid.payload
                           /\ out.valid.payload.entity_id = in_reg.areas[i].light_entities)

\* a room that is not found beside an entity name that resolves
C9_Witness ==
    /\ phase = "done"
    /\ in_reg = RegHome
    /\ in_result.service = "turn_on"
    /\ in_result.room_name = << "b", "a", "r", "n" >>
    /\ in_result.entity_friendly_name = << "f", "a", "n", "-", "1" >>
    /\ out.valid.msg = "Room not found for name"

\* a Validated Command for the decision result over the registry reg: an allowed
\* service, a target taken from the registry, and only the accepted data keys
\* within their ranges
IsValidatedCommand(c, result, reg) ==
    /\ c.service \in {"turn_on", "turn_off"}
    /\ c.service = result.service
    /\ DOMAIN c.data \subseteq {"entity_id", "area_id", "brightness_pct", "color_temp_kelvin"}
    /\ Cardinality(DOMAIN c.data \cap {"entity_id", "area_id"}) = 1
    /\ IF Truthy(result.room_name)
       THEN /\ c.domain = << "light" >>
            /\ \E i \in DOMAIN reg.areas :
                  \/ /\ "area_id" \in DOMAIN c.data
                     /\ Truthy(reg.areas[i].area_id)
                     /\ c.data.area_id = reg.areas[i].area_id
                  \/ /\ "entity_id" \in DOMAIN c.data
                     /\ reg.areas[i].light_entities # << >>
                     /\ c.data.entity_id = reg.areas[i].light_entities
       ELSE /\ "entity_id" \in DOMAIN c.data
            /\ \E i \in DOMAIN reg.entities :
                  /\ c.data.entity_id = reg.entities[i].entity_id
                  /\ c.domain = << Head(reg.entities[i].entity_id) >>
    /\ "brightness_pct" \in DOMAIN c.data => c.data.brightness_pct \in 1..100
    /\ "color_temp_kelvin" \in DOMAIN c.data => c.data.color_temp_kelvin \in 2300..4000

\* C2: every backend call handle_text makes carries a Validated Command and is
\* made only after _validate_llm_result has succeeded; no field of the raw
\* decision, response_text included, reaches a backend call.
C2_EveryCallValidated ==
    phase = "done" =>
        \A k \in DOMAIN out.handled.calls :
            /\ out.valid.exc = ""
            /\ IsValidatedCommand(out.handled.calls[k], in_result, in_reg)

-----------------------------------------------------------------------------
(* Properties of _clean_data (SpecClean)                                    *)

\* values int() does not convert
NonNumeric == {PyStr(<< "a", "b", "c" >>), PyStr(<< "w", "a", "r", "m" >>), PyStr(<< >>),
               PyNull, PyList}

\* the cleaned value of key, when data[key] is the integer n, is m
CleansTo(key, n, m) ==
    (key \in DOMAIN in_result.data /\ in_result.data[key] = PyInt(n) /\ out.exc = "")
        => out.cleaned[key] = m

\* C10: _clean_data keeps only brightness_pct and color_temp_kelvin, clamps them
\* to [1, 100] (150 gives 100, 0 gives 1) and [2300, 4000] (5000 gives 4000, 1000
\* gives 2300), drops every other key, and fails on a value that is not numeric.
C10_CleanData ==
    phase = "done" =>
        /\ out.exc = "" =>
              /\ DOMAIN out.cleaned =
                    DOMAIN in_result.data \cap {"brightness_pct", "color_temp_kelvin"}
              /\ "brightness_pct" \in DOMAIN out.cleaned =>
                    out.cleaned.brightness_pct \in 1..100
              /\ "color_temp_kelvin" \in DOMAIN out.cleaned =>
                    out.cleaned.color_temp_kelvin \in 2300..4000
        /\ CleansTo("brightness_pct", 150, 100)
        /\ CleansTo("brightness_pct", 0, 1)
        /\ CleansTo("brightness_pct", 50, 50)
        /\ CleansTo("color_temp_kelvin", 5000, 4000)
        /\ CleansTo("color_temp_kelvin", 1000, 2300)
        /\ CleansTo("color_temp_kelvin", 3000, 3000)
        /\ (\E key \in DOMAIN in_result.data \cap {"brightness_pct", "color_temp_kelvin"} :
               in_result.data[key] \in NonNumeric) =>
              (out.exc # "" /\ out.cleaned = EmptyDict)

\* both accepted keys out of range below and above, beside a foreign key
C10_Witness ==
    /\ phase = "done"
    /\ "rgb_color" \in DOMAIN in_result.data
    /\ "brightness_pct" \in DOMAIN in_result.data
    /\ in_result.data.brightness_pct = PyInt(0)
    /\ "color_temp_kelvin" \in DOMAIN in_result.data
    /\ in_result.data.color_temp_kelvin = PyInt(5000)
    /\ out.exc = ""
    /\ out.cleaned = ("brightness_pct" :> 1) @@ ("color_temp_kelvin" :> 4000)

-----------------------------------------------------------------------------
(* Properties of _llm_request (SpecLlm)                                     *)

\* the response has no choices: the key is absent, null or an empty list
HasNoChoices(body) ==
    \/ "choices" \notin DOMAIN body.d
    \/ body.d.choices = JNull
    \/ body.d.choices = JList(<< >>)

\* the message holds no content: the key is absent, null or the empty string
NoContentIn(message) ==
    /\ message.t = "dict"
    /\ \/ "content" \notin DOMAIN message.d
       \/ message.d.content \in {JNull, JStr(<< >>)}

\* the first choice's message content is empty, the message being an object or
\* absent from the choice
HasEmptyContent(body) ==
    /\ "choices" \in DOMAIN body.d
    /\ body.d.choices.t = "list"
    /\ body.d.choices.items # << >>
    /\ body.d.choices.items[1].t = "dict"
    /\ \/ "message" \notin DOMAIN body.d.choices.items[1].d
       \/ NoContentIn(body.d.choices.items[1].d.message)

\* C11: a response without choices, or whose first choice's message content is
\* empty, makes _llm_request raise RuntimeError and nothing else; no content is
\* returned, and handle_text ends with that error without any backend call.
C11_ProtocolError ==
    (/\ phase = "done"
     /\ arg.transport = "ok"
     /\ arg.body.t = "dict"
     /\ HasNoChoices(arg.body) \/ HasEmptyContent(arg.body)) =>
        /\ ret.request.exc = "RuntimeError"
        /\ ret.request.content = NONE
        /\ ret.request.msg = (IF HasNoChoices(arg.body) THEN "LLM response missing choices"
                              ELSE "LLM response missing content")
        /\ ret.routed.exc = "RuntimeError"
        /\ ret.handled = [branch |-> "llm_route", exc |-> "RuntimeError", calls |-> << >>]

\* a first choice whose message content is the empty string
C11_Witness ==
    /\ phase = "done"
    /\ arg.transport = "ok"
    /\ arg.body = JDict("choices" :> JList(<< JDict("message" :>
                                                 JDict("content" :> JStr(<< >>))) >>))
    /\ ret.request.msg = "LLM response missing content"

-----------------------------------------------------------------------------
(* Properties of the supervision of the router worker (Spec)                *)

\* C12 as stated: a dead worker is replaced by one started on a queue object
\* created for it, which becomes the queue main puts texts on.
C12_RestartOnFreshQueue ==
    [][(~router_alive /\ router_alive') =>
          (main_queue' > queues_made /\ proc_queue' = main_queue')]_vars

\* C12: when on_text finds the worker dead it starts a new worker on the queue
\* main already holds, creating no queue, and then puts the text on that queue:
\* the new worker reads the queue the text is put on, after the texts that
\* were waiting in it.
C12_RestartOnSameQueue ==
    [][(~router_alive /\ router_alive') =>
          (/\ main_queue' = main_queue
           /\ proc_queue' = main_queue'
           /\ queues_made' = queues_made
           /\ Len(router_queue') = Len(router_queue) + 1
           /\ SubSeq(router_queue', 1, Len(router_queue)) = router_queue
           /\ router_queue'[Len(router_queue')] = last_frame'.text)]_vars

\* a capture that restarted the worker with a text already waiting in the queue
C12_Witness ==
    /\ last_frame.did = "capture"
    /\ last_frame.restarted
    /\ router_alive
    /\ proc_queue = main_queue
    /\ Len(router_queue) = 2
    /\ router_queue[2] = last_frame.text

\* router processes alive
AliveWorkers == orphans + (IF router_alive THEN 1 ELSE 0)

\* C13: at most one router worker is alive and at most one utterance is between
\* dequeue and completion, across enqueues, crashes and restarts.
C13_OneWorkerOneUtterance ==
    /\ AliveWorkers <= 1
    /\ orphans = 0
    /\ wpc = "handling" => (router_alive /\ cur # NoText)
    /\ wpc = "idle" => cur = NoText

\* a restarted worker handling a text while another waits
C13_Witness ==
    /\ last_frame.restarted
    /\ router_alive
    /\ wpc = "handling"
    /\ router_queue # << >>

\* utterances queued for or undergoing resolution
InFlight == Len(router_queue) + (IF wpc = "handling" THEN 1 ELSE 0)

\* C14: at most one utterance is in flight: no capture adds a text while an
\* earlier one is still queued or being handled by the worker.
C14_OneInFlight == InFlight <= 1

\* the backend calls that let the user hear something
AudibleServices == {"speak", "play_media"}

\* C15: every utterance that fails after capture ends with an audible cue or a
\* spoken message: a failed transcription plays the error cue, and a failed
\* handle_text has made a speaking or playing backend call.
C15_FailureIsAudible ==
    /\ (last_frame.did = "capture" /\ last_frame.outcome = "transcribe_raises") =>
          \E k \in DOMAIN last_frame.steps : last_frame.steps[k] = ErrorCueStep
    /\ (last.exc # "" \/ last.branch = "validation_error") =>
          \E k \in DOMAIN last.calls : last.calls[k].service \in AudibleServices

\* C16: the frame loop makes no network request of its own, and a backend
\* endpoint that fails does not end it.
C16_ListenerMakesNoRequest ==
    /\ \A k \in DOMAIN last_frame.steps : last_frame.steps[k] \notin NetworkSteps
    /\ last_frame.outcome \in {"set_volume_raises", "ready_cue_raises", "end_cue_raises"}
          => listener_alive

-----------------------------------------------------------------------------
(* Properties of norm (SpecNorm)                                            *)

\* the key of s read off its letters and digits: they are lower-cased, and
\* every run of other characters between two of them is one space
RECURSIVE KeyFrom(_, _, _)
KeyFrom(s, acc, gap) ==
    IF s = << >> THEN acc
    ELSE IF Head(s) \in Range(UpperLetters) \cup Range(LowerLetters) \cup Digits
    THEN KeyFrom(Tail(s),
                 acc \o (IF gap /\ acc # << >> THEN << " " >> ELSE << >>)
                     \o << LowerChar(Head(s)) >>,
                 FALSE)
    ELSE KeyFrom(Tail(s), acc, TRUE)

-----------------------------------------------------------------------------
(* Properties of load_registry (SpecLoad)                                   *)

\* the keys a snapshot must have
RequiredKeys == {"entities", "areas"}

\* C18: loading fails when the file is missing, unparsable or structurally
\* invalid (not an object, or an object without entities or areas), and
\* handle_text then stops at the load; such a file is never used as a registry.
C18_InvalidRegistryRejected ==
    (/\ phase = "done"
     /\ \/ arg.state # "ok"
        \/ arg.kind # "dict"
        \/ ~(RequiredKeys \subseteq DOMAIN arg.doc)) =>
        /\ ret.loaded.exc # ""
        /\ ret.handled.branch = "load_registry"

-----------------------------------------------------------------------------
(* Properties of _build_prompt (SpecPrompt)                                 *)

\* the entities of reg whose friendly name holds no exclusion phrase as written
Addressable(reg) ==
    {i \in DOMAIN reg.entities :
        \A x \in ExclusionPhrases : ~Contains(reg.entities[i].friendly_name, x)}

\* the areas of reg that have a name
NamedAreas(reg) == {i \in DOMAIN reg.areas : reg.areas[i].name \notin {NONE, << >>}}

\* the attribute words of the modes an entity supports
WordsFor(entity) ==
    IF "supported_color_modes" \notin DOMAIN entity THEN {}
    ELSE {w \in {"brightness", "warmth"} :
             \E k \in DOMAIN entity.supported_color_modes :
                \/ w = "brightness" /\ entity.supported_color_modes[k] = "brightness"
                \/ w = "warmth" /\ entity.supported_color_modes[k] = "color_temp_kelvin"}

\* the table has a row for the entity, with its attribute words
HasEntityRow(table, entity) ==
    \E k \in DOMAIN table :
        /\ table[k].item = entity.friendly_name
        /\ table[k].type # << "area" >>
        /\ Range(table[k].other_attributes) = WordsFor(entity)

\* the table has a row for the area
HasAreaRow(table, area) ==
    \E k \in DOMAIN table : table[k].item = area.name /\ table[k].type = << "area" >>

\* no row of the table is an entity whose name holds an exclusion phrase
NoExcludedRow(table) ==
    \A k \in DOMAIN table :
        table[k].type # << "area" >> =>
            \A x \in ExclusionPhrases : ~Contains(table[k].item, x)

-----------------------------------------------------------------------------
(* Properties of the capture sequence (Spec)                                *)

\* the steps of a capture in the order stated for them
StatedOrder ==
    << "set_volume", "ready_cue", "sleep", "record_wav", "end_cue", "transcribe",
       "on_text", "cooldown", "disarm" >>

\* the stated steps among steps, in the order they were performed
RECURSIVE StatedAmong(_)
StatedAmong(steps) ==
    IF steps = << >> THEN << >>
    ELSE (IF \E k \in DOMAIN StatedOrder : StatedOrder[k] = Head(steps)
          THEN << Head(steps) >> ELSE << >>) \o StatedAmong(Tail(steps))

\* C22: a capture performs, within the one loop iteration that triggered, the
\* steps lower volume, ready cue, pause, record, end cue, transcribe, hand off,
\* cooldown in that order (a capture that fails stops within that order, an
\* empty transcription skips the hand-off), and a capture that completes ends
\* with the cooldown followed by not armed and a silence count of 0.
C22_CaptureOrder ==
    last_frame.did = "capture" =>
        /\ \E n \in 0..Len(StatedOrder) :
              \/ StatedAmong(last_frame.steps) = SubSeq(StatedOrder, 1, n)
              \/ /\ last_frame.text = NoText
                 /\ StatedAmong(last_frame.steps) =
                       SubSeq(StatedOrder, 1, 6) \o SubSeq(StatedOrder, 8, n)
        /\ last_frame.text # NoText => StatedAmong(last_frame.steps) = StatedOrder
        /\ listener_alive =>
              /\ ~armed /\ silence_frames = 0
              /\ Len(last_frame.steps) >= 2
              /\ SubSeq(last_frame.steps, Len(last_frame.steps) - 1, Len(last_frame.steps))
                    = << "cooldown", "disarm" >>

\* a capture that handed a text over and is now waiting for silence
C22_Witness ==
    /\ last_frame.did = "capture"
    /\ last_frame.text # NoText
    /\ listener_alive
    /\ ~armed
    /\ router_queue # << >>

\* the positions of heard that hold no whitespace
Solid(heard) == {i \in DOMAIN heard : heard[i] \notin {" ", "\t", "\n", "\r"}}

\* heard without the whitespace before its first and after its last such position
Stripped(heard) ==
    IF Solid(heard) = {} THEN << >>
    ELSE SubSeq(heard, CHOOSE i \in Solid(heard) : \A j \in Solid(heard) : i <= j,
                CHOOSE i \in Solid(heard) : \A j \in Solid(heard) : i >= j)

\* C23: a capture that completes puts the stripped transcription on the queue
\* exactly when it is not empty, and nothing otherwise; either way it goes on to
\* the cooldown and leaves the listener not armed with a silence count of 0.
C23_HandOffIffText ==
    [][(armed /\ ~armed') =>
          /\ last_frame'.did = "capture"
          /\ Stripped(last_frame'.heard) = << >> =>
                /\ router_queue' = router_queue
                /\ \A k \in DOMAIN last_frame'.steps : last_frame'.steps[k] # "on_text"
          /\ Stripped(last_frame'.heard) # << >> =>
                /\ router_queue' = Append(router_queue, Stripped(last_frame'.heard))
                /\ \E k \in DOMAIN last_frame'.steps : last_frame'.steps[k] = "on_text"
          /\ silence_frames' = 0
          /\ \E k \in DOMAIN last_frame'.steps :
                /\ last_frame'.steps[k] = "cooldown"
                /\ \A j \in DOMAIN last_frame'.steps :
                      last_frame'.steps[j] \in {"transcribe", "on_text"} => j < k]_vars

\* a transcription of whitespace only: nothing was handed over and the listener
\* is waiting for silence
C23_Witness ==
    /\ last_frame.did = "capture"
    /\ last_frame.heard = << " " >>
    /\ listener_alive
    /\ ~armed
    /\ silence_frames = 0
    /\ router_queue = << >>

\* C26: a capture never follows a capture directly: when one begins, the frames
\* scored since the capture before it (recent, emptied by a capture) are none,
\* there having been no capture, or at least REARM_SILENCE_FRAMES frames, the
\* last of them all below REARM_THRESHOLD and so none a trigger; and the frame
\* that re-arms the listener is a silent frame that starts no capture.
C26_CapturesApart ==
    [][/\ TRIGGER_THRESHOLD > REARM_THRESHOLD
       /\ (last_frame'.did = "capture" /\ last_frame' # last_frame) =>
             /\ last_frame.did # "capture"
             /\ armed
             /\ \/ recent = << >> /\ last_frame.did \in {"none", "idle"}
                \/ /\ Len(recent) >= 5
                   /\ \A i \in DOMAIN recent : recent[i] < 3500 /\ recent[i] < 7500
       /\ (~armed /\ armed') =>
             /\ last_frame'.did = "rearm"
             /\ last_frame'.score < 3500
             /\ last_frame'.steps = << >>
             /\ router_queue' = router_queue]_vars

\* a second capture: a text was handed over while the text of an earlier
\* capture was still waiting
C26_Witness ==
    /\ last_frame.did = "capture"
    /\ last_frame.text # NoText
    /\ ~last_frame.restarted
    /\ Len(router_queue) = 2
    /\ recent = << >>

-----------------------------------------------------------------------------
(* Properties of the router worker's queue and calls (Spec)                 *)

\* C24 as stated: every outbound call has a timeout, so the worker is never
\* left waiting without limit on an endpoint that does not answer.
C24_HandlingTerminates == wpc # "blocked"

\* C27: a worker that dies loses the text it was handling and leaves the queue
\* as it is; the queue is not read while the worker is dead; the worker is
\* replaced only by the next on_text, on the same queue, whose text goes behind
\* the texts waiting; and a worker takes the text at the head of the queue.
C27_QueueSurvivesCrash ==
    [][/\ (router_alive /\ ~router_alive' /\ listener_alive') =>
             /\ router_queue' = router_queue
             /\ cur # NoText /\ cur' = NoText
       /\ (~router_alive /\ ~router_alive') => router_queue' = router_queue
       /\ (~router_alive /\ router_alive') =>
             /\ last_frame'.did = "capture" /\ last_frame'.text # NoText
             /\ router_queue' = Append(router_queue, last_frame'.text)
             /\ main_queue' = main_queue /\ proc_queue' = main_queue
       /\ (wpc = "idle" /\ wpc' = "handling") =>
             /\ router_queue # << >>
             /\ cur' = Head(router_queue)
             /\ router_queue' = Tail(router_queue)]_vars

\* the replacement worker handling the text that waited through the crash, the
\* text that brought the restart behind it
C27_Witness ==
    /\ last_frame.restarted
    /\ router_alive
    /\ wpc = "handling"
    /\ cur # last_frame.text
    /\ router_queue = << last_frame.text >>

-----------------------------------------------------------------------------
(* Properties of room targets and replies (SpecHandle)                      *)

\* the areas of reg whose normalized name is that of room_name
RoomsNamed(reg, room_name) ==
    {i \in DOMAIN reg.areas : norm(reg.areas[i].name) = norm(room_name)}

\* the first of them
MatchedRoom(reg, room_name) ==
    reg.areas[CHOOSE i \in RoomsNamed(reg, room_name) :
                 \A j \in RoomsNamed(reg, room_name) : i <= j]

\* the area has a backend area id
HasAreaId(area) == area.area_id \notin {NONE, << >>}

\* C25: the payload validated for a room holds exactly one target selector:
\* area_id, and no entity_id, when the matched room has an area id; otherwise
\* entity_id, the room's light entity list, and no area_id; the command is for
\* the light domain with the decision's service, and is the one dispatched.
C25_OneRoomSelector ==
    (/\ phase = "done"
     /\ in_result.room_name \notin {NONE, << >>}
     /\ out.valid.exc = "") =>
        /\ RoomsNamed(in_reg, in_result.room_name) # {}
        /\ Cardinality(DOMAIN out.valid.payload \cap {"area_id", "entity_id"}) = 1
        /\ HasAreaId(MatchedRoom(in_reg, in_result.room_name)) =>
              /\ "entity_id" \notin DOMAIN out.valid.payload
              /\ out.valid.payload["area_id"]
                    = MatchedRoom(in_reg, in_result.room_name).area_id
        /\ ~HasAreaId(MatchedRoom(in_reg, in_result.room_name)) =>
              /\ "area_id" \notin DOMAIN out.valid.payload
              /\ out.valid.payload["entity_id"]
                    = MatchedRoom(in_reg, in_result.room_name).light_entities
        /\ out.valid.domain = << "light" >>
        /\ out.valid.service = in_result.service
        /\ out.handled.branch = "execute" =>
              out.handled.calls[1].data = out.valid.payload

\* the room with an area id and a light list: the area id alone is sent
C25_Witness ==
    /\ phase = "done"
    /\ in_reg = RegHome
    /\ in_result.room_name = << "L", "O", "F", "T" >>
    /\ in_result.service = "turn_off"
    /\ out.valid.exc = ""
    /\ out.handled.branch = "execute"
    /\ DOMAIN out.handled.calls[1].data = {"area_id"}

\* C29: a room-targeted decision whose matched room has neither an area id nor a
\* light entity fails with "No lights found for room"; every command that
\* _validate_llm_result returns, and every device command dispatched, names a
\* target that is not empty.
C29_NoEmptyTarget ==
    phase = "done" =>
        /\ (/\ in_result.service \in {"turn_on", "turn_off"}
            /\ in_result.room_name \notin {NONE, << >>}
            /\ RoomsNamed(in_reg, in_result.room_name) # {}
            /\ ~HasAreaId(MatchedRoom(in_reg, in_result.room_name))
            /\ MatchedRoom(in_reg, in_result.room_name).light_entities = << >>) =>
              /\ out.valid.exc = "RuntimeError"
              /\ out.valid.msg = "No lights found for room"
              /\ out.handled.branch = "reply" \/ out.handled.branch = "validation_error"
        /\ out.valid.exc = "" =>
              \E key \in {"area_id", "entity_id"} :
                 /\ key \in DOMAIN out.valid.payload
                 /\ out.valid.payload[key] \notin {NONE, << >>}
        /\ \A k \in DOMAIN out.handled.calls :
              out.handled.calls[k].service \in {"turn_on", "turn_off"} =>
                 \E key \in {"area_id", "entity_id"} :
                    /\ key \in DOMAIN out.handled.calls[k].data
                    /\ out.handled.calls[k].data[key] \notin {NONE, << >>}

\* the room with neither, named by a decision that is otherwise a command
C29_Witness ==
    /\ phase = "done"
    /\ in_reg = RegHome
    /\ in_result.service = "turn_on"
    /\ in_result.intent # "reply"
    /\ in_result.room_name = << "a", "t", "t", "i", "c" >>
    /\ out.valid.msg = "No lights found for room"
    /\ out.handled.branch = "validation_error"

\* C28: a decision with intent reply, or with no service and a response text
\* that is not blank, is answered by a spoken reply alone: handle_text lets no
\* validation error out and calls nothing but volume_set and the speech service
\* of the living room player, even when the decision holds an accepted service
\* and a name that resolves.
C28_ReplyBypassesAction ==
    (/\ phase = "done"
     /\ \/ in_result.intent = "reply"
        \/ /\ in_result.service \in {NoneStr, ""}
           /\ in_result.response_text # NONE
           /\ Stripped(in_result.response_text) # << >>) =>
        /\ out.handled.branch = "reply"
        /\ out.handled.exc \in {"", "HTTPError"}
        /\ \A k \in DOMAIN out.handled.calls :
              /\ out.handled.calls[k].service \in {"volume_set", "speak"}
              /\ out.handled.calls[k].domain \in {<< "media_player" >>, << "tts" >>}
        /\ in_fail = 0 =>
              /\ Len(out.handled.calls) = 2
              /\ out.handled.calls[1].service = "volume_set"
              /\ out.handled.calls[2].service = "speak"
              /\ out.handled.calls[2].data["message"] =
                    (IF in_result.response_text # NONE
                        /\ Stripped(in_result.response_text) # << >>
                     THEN Stripped(in_result.response_text)
                     ELSE << "I am not sure how to help with that." >>)

\* intent reply beside an accepted service and an entity name that resolves
C28_Witness ==
    /\ phase = "done"
    /\ in_reg = RegHome
    /\ in_fail = 0
    /\ in_result.intent = "reply"
    /\ in_result.service = "turn_on"
    /\ in_result.entity_friendly_name = << "f", "a", "n", "-", "1" >>
    /\ out.valid.exc = ""
    /\ out.handled.branch = "reply"
    /\ Len(out.handled.calls) = 2

-----------------------------------------------------------------------------
(* Properties of one request against the registry file (SpecSnapshot)       *)

\* the names a prompt row may carry for registry reg
RowNames(reg) ==
    {reg.entities[i].friendly_name : i \in Addressable(reg)}
    \cup {reg.areas[i].name : i \in NamedAreas(reg)}

\* rows are one row for each addressable entity and named area of reg
RowsOf(rows, reg) ==
    /\ Len(rows) = Cardinality(Addressable(reg)) + Cardinality(NamedAreas(reg))
    /\ {rows[k].item : k \in DOMAIN rows} = RowNames(reg)

\* C21: from the moment a request has built its prompt until the next request
\* loads the file, the index the retriever read, the rows of the prompt and the
\* entity or room that validation resolved all come from the registry loaded
\* at the start of that request, whatever the registry file holds by then and
\* whatever index was cached before.
C21_OneSnapshotPerRequest ==
    /\ hpc # "loaded" =>
          /\ retrieved_from # << >> => RowsOf(retrieved_from, loaded_reg)
          /\ \A k \in DOMAIN prompt_table : prompt_table[k].item \in RowNames(loaded_reg)
          /\ Len(prompt_table) =
                Min2(20, Cardinality(Addressable(loaded_reg))
                         + Cardinality(NamedAreas(loaded_reg)))
    /\ _RAG_INDEX # << >> => _RAG_INDEX = _RAG_ROWS
    /\ (hpc = "idle" /\ validated.valid.exc = "") =>
          /\ validated.valid = _validate_llm_result(validated.result, loaded_reg)
          /\ "entity_id" \in DOMAIN validated.valid.payload =>
                \E i \in DOMAIN loaded_reg.entities :
                   loaded_reg.entities[i].entity_id = validated.valid.payload["entity_id"]

\* a request resolved against its snapshot after the file was replaced by a
\* registry that gives other rows and does not hold the entity
C21_Witness ==
    /\ hpc = "idle"
    /\ validated.valid.exc = ""
    /\ loaded_reg = RegHome
    /\ registry_file = PromptRegistry(2)
    /\ prompt_table # << >>
    /\ _RAG_ROWS # << >>

=============================================================================
